---------------------------- MODULE Spec2Model ----------------------------
(***************************************************************************)
(* Model of the dictionary core of yomihelper: kana normalisation,         *)
(* rule-based deinflection (deinflect), the index binary search and the    *)
(* prefix loop of searchWord, the entry parser (parseWordDictLine) and the *)
(* pitch-accent lookup (getPitchAccents).                                  *)
(*                                                                         *)
(* Strings are sequences of UTF-16 code units (integers), so that the      *)
(* comparisons, slices and index arithmetic of the code keep their         *)
(* meaning.  Array and string positions are 0-based as in the code; the    *)
(* TLA+ sequence index is the position plus one.                           *)
(***************************************************************************)
EXTENDS Integers, Sequences, FiniteSets, TLC

(***************************************************************************)
(* Characters (UTF-16 code units).                                         *)
(***************************************************************************)
ChTab == 9
ChNL == 10
ChSpace == 32
ChAmp == 38
ChComma == 44
ChSlash == 47
ChZero == 48
ChSemi == 59
ChLBr == 91
ChRBr == 93
ChLatA == 97
ChLatK == 107
ChLatL == 108
ChLatT == 116
ChLatX == 120
HiraA == 12354
HiraI == 12356
HiraU == 12358
HiraKa == 12363
KataU == 12454
KataKa == 12459
KataFirst == 12449
KataLast == 12534
KataShift == 96

(***************************************************************************)
(* Bounds of the model.                                                    *)
(***************************************************************************)
MaxWordLen == 2

Min(a, b) == IF a < b THEN a ELSE b
Max(a, b) == IF a > b THEN a ELSE b

(* All strings over alphabet A of length lo..hi. *)
StrOver(A, lo, hi) == UNION {[1..n -> A] : n \in lo..hi}

(***************************************************************************)
(* JavaScript string primitives.                                           *)
(***************************************************************************)
(* String.prototype.slice(start, end) with negative positions. *)
Clamp(p, n) == IF p < 0 THEN Max(n + p, 0) ELSE Min(p, n)
Slice(s, a, b) ==
    LET from == Clamp(a, Len(s))
        to == Clamp(b, Len(s))
    IN  IF from >= to THEN <<>> ELSE SubSeq(s, from + 1, to)
SliceFrom(s, a) == Slice(s, a, Len(s))

(* a < b on strings: lexicographic on code units. *)
StrLess(a, b) ==
    \E i \in 1..(Min(Len(a), Len(b)) + 1) :
        /\ \A j \in 1..(i - 1) : a[j] = b[j]
        /\ \/ i > Len(a) /\ i <= Len(b)
           \/ i <= Len(a) /\ i <= Len(b) /\ a[i] < b[i]

(* indexOf(ch, from): least position >= from holding ch, else -1. *)
IndexOf(s, ch, from) ==
    LET hits == {p \in Max(from, 0)..(Len(s) - 1) : s[p + 1] = ch}
    IN  IF hits = {} THEN -1 ELSE CHOOSE p \in hits : \A q \in hits : p <= q

(* lastIndexOf(ch, from): greatest position <= from holding ch, else -1. *)
LastIndexOf(s, ch, from) ==
    LET hits == {p \in 0..Min(from, Len(s) - 1) : s[p + 1] = ch}
    IN  IF hits = {} THEN -1 ELSE CHOOSE p \in hits : \A q \in hits : p >= q

(* split(sep) on a one-character separator. *)
RECURSIVE Split(_, _)
Split(s, sep) ==
    LET p == IndexOf(s, sep, 0)
    IN  IF p = -1 THEN <<s>>
        ELSE <<Slice(s, 0, p)>> \o Split(SliceFrom(s, p + 1), sep)

(* Bitwise and / or on non-negative integers. *)
RECURSIVE BitAnd(_, _)
BitAnd(a, b) ==
    IF a = 0 \/ b = 0 THEN 0
    ELSE (a % 2) * (b % 2) + 2 * BitAnd(a \div 2, b \div 2)
RECURSIVE BitOr(_, _)
BitOr(a, b) ==
    IF a = 0 THEN b
    ELSE IF b = 0 THEN a
    ELSE Max(a % 2, b % 2) + 2 * BitOr(a \div 2, b \div 2)

(***************************************************************************)
(* KanaNormalizer.  The two modules are imported by search.ts and          *)
(* getPitchAccents.ts; they are modelled from sections 4.1 of the          *)
(* specification.                                                          *)
(***************************************************************************)
(* Mutant of KataCharToHira: every character from hiragana a upwards is
   shifted. *)
KataCharToHiraWide(c) == IF c >= HiraA /\ c <= KataLast THEN c - KataShift ELSE c

(* katakanaToHiragana: per-character shift of the katakana block. *)
KataCharToHira(c) == IF c >= KataFirst /\ c <= KataLast THEN c - KataShift ELSE c
katakanaToHiragana(s) == [i \in 1..Len(s) |-> KataCharToHira(s[i])]

(* romajiToHiragana: longest-match substitution of romanisation chunks. *)
RomajiTable ==
    { <<(<<ChLatK, ChLatA>>), (<<HiraKa>>)>>,
      <<(<<ChLatA>>), (<<HiraA>>)>> }
RECURSIVE romajiToHiragana(_)
romajiToHiragana(s) ==
    IF s = <<>> THEN <<>>
    ELSE LET fits == {e \in RomajiTable :
                         Len(e[1]) <= Len(s) /\ SubSeq(s, 1, Len(e[1])) = e[1]}
         IN  IF fits = {} THEN <<s[1]>> \o romajiToHiragana(Tail(s))
             ELSE LET e == CHOOSE x \in fits : \A y \in fits : Len(x[1]) >= Len(y[1])
                  IN  e[2] \o romajiToHiragana(SliceFrom(s, Len(e[1])))
Normalize(s) == katakanaToHiragana(romajiToHiragana(s))


(***************************************************************************)
(* Deinflector: deinflect(difReasons, difRuleGroups, word).                *)
(*                                                                         *)
(* A rule is [from, to, typeMask, reasonIndex]; a rule group is            *)
(* [fromLength, rules]; a worklist entry is [word, type, reason].  The     *)
(* traversal state is the record                                           *)
(*   [results, map, i, g, r, type]                                         *)
(* where map is wordToResultIndex, i/g/r are the 0-based positions of the  *)
(* three nested loops and type is the `type` constant read from the entry  *)
(* when its processing starts.                                             *)
(***************************************************************************)
AllTypes == 255
TypeShift == 256

(* The separator of a reason chain, " &lt; ". *)
ReasonSep == <<ChSpace, ChAmp, ChLatL, ChLatT, ChSemi, ChSpace>>

DInit(word) ==
    [results |-> << [word |-> word, type |-> AllTypes, reason |-> <<>>] >>,
     map |-> [w \in {word} |-> 0],
     i |-> 0, g |-> 0, r |-> 0, type |-> AllTypes]

DDone(st) == st.i >= Len(st.results)
DWord(st) == st.results[st.i + 1].word
DGroup(groups, st) == groups[st.g + 1]
DRule(groups, st) == DGroup(groups, st).rules[st.r + 1]
DNewWord(groups, st) ==
    LET rule == DRule(groups, st)
    IN  Slice(DWord(st), 0, Len(DWord(st)) - Len(rule.from)) \o rule.to

(* difReasons[rule.reasonIndex]; <<>> stands for undefined and for "". *)
ReasonAt(reasons, idx) ==
    IF idx >= 0 /\ idx < Len(reasons) THEN reasons[idx + 1] ELSE <<>>

(* The entry the map gives for newWord: results[wordToResultIndex[newWord]],
   0 when the map has no such key or the position holds no entry. *)
DExisting(st, newWord) ==
    IF newWord \in DOMAIN st.map /\ st.map[newWord] < Len(st.results)
    THEN st.map[newWord] + 1
    ELSE 0

(* What the next step of the traversal is. *)
DKind(reasons, groups, st) ==
    IF DDone(st) THEN "done"
    ELSE IF st.g >= Len(groups) THEN "nextResult"
    ELSE IF Len(DWord(st)) < DGroup(groups, st).fromLength THEN "skipGroup"
    ELSE IF st.r >= Len(DGroup(groups, st).rules) THEN "endGroup"
    ELSE LET rule == DRule(groups, st)
             end == SliceFrom(DWord(st), 0 - DGroup(groups, st).fromLength)
         IN  IF BitAnd(st.type, rule.typeMask) = 0 \/ end # rule.from
             THEN "noMatch"
             ELSE IF Len(DNewWord(groups, st)) <= 0 THEN "empty"
             ELSE IF DExisting(st, DNewWord(groups, st)) # 0 THEN "merge"
             ELSE IF ReasonAt(reasons, rule.reasonIndex) = <<>> THEN "break"
             ELSE "push"

(* Mutant of DMapPut: the word is not registered. *)
DMapForget(map, w, n) == map
(* wordToResultIndex[newWord] = results.length *)
DMapPut(map, w, n) == [x \in DOMAIN map \cup {w} |-> IF x = w THEN n ELSE map[x]]

DNextResult(st) ==
    [st EXCEPT !.i = st.i + 1, !.g = 0, !.r = 0,
               !.type = IF st.i + 1 < Len(st.results)
                        THEN st.results[st.i + 2].type ELSE 0]
DNextGroup(st) == [st EXCEPT !.g = st.g + 1, !.r = 0]
DNextRule(st) == [st EXCEPT !.r = st.r + 1]

(* Mutant of DMerge: the merge leaves the rule group (break for continue). *)
DMergeLeavesGroup(groups, st) ==
    LET k == DExisting(st, DNewWord(groups, st))
        bits == DRule(groups, st).typeMask \div TypeShift
    IN  [DNextGroup(st) EXCEPT !.results[k].type = BitOr(st.results[k].type, bits)]

(* Mutant of DMerge: the result types of the rule replace those of the
   entry. *)
DMergeOverwrites(groups, st) ==
    LET k == DExisting(st, DNewWord(groups, st))
        bits == DRule(groups, st).typeMask \div TypeShift
    IN  [DNextRule(st) EXCEPT !.results[k].type = bits]

(* deinflection.type |= rule.typeMask >> 8; continue *)
DMerge(groups, st) ==
    LET k == DExisting(st, DNewWord(groups, st))
        bits == DRule(groups, st).typeMask \div TypeShift
    IN  [DNextRule(st) EXCEPT !.results[k].type = BitOr(st.results[k].type, bits)]

(* wordToResultIndex[newWord] = results.length; if (!reason) break *)
DBreak(groups, st) ==
    [DNextGroup(st) EXCEPT
        !.map = DMapPut(st.map, DNewWord(groups, st), Len(st.results))]

(* Mutant of DChain: the reason of the rule is put after the chain of the
   parent. *)
DChainParentFirst(reason, parent) ==
    IF parent # <<>> THEN parent \o ReasonSep \o reason ELSE reason

(* result.reason ? reason + " &lt; " + result.reason : reason *)
DChain(reason, parent) ==
    IF parent # <<>> THEN reason \o ReasonSep \o parent ELSE reason

(* Mutant of DPush: the new entry is put in front of the worklist. *)
DPushFront(reasons, groups, st) ==
    LET rule == DRule(groups, st)
        nw == DNewWord(groups, st)
        entry == [word |-> nw,
                  type |-> rule.typeMask \div TypeShift,
                  reason |-> DChain(ReasonAt(reasons, rule.reasonIndex),
                                    st.results[st.i + 1].reason)]
    IN  [DNextRule(st) EXCEPT
            !.map = DMapPut(st.map, nw, Len(st.results)),
            !.results = <<entry>> \o st.results]

(* wordToResultIndex[newWord] = results.length; results.push({...}) *)
DPush(reasons, groups, st) ==
    LET rule == DRule(groups, st)
        nw == DNewWord(groups, st)
        entry == [word |-> nw,
                  type |-> rule.typeMask \div TypeShift,
                  reason |-> DChain(ReasonAt(reasons, rule.reasonIndex),
                                    st.results[st.i + 1].reason)]
    IN  [DNextRule(st) EXCEPT
            !.map = DMapPut(st.map, nw, Len(st.results)),
            !.results = Append(st.results, entry)]

DStep(reasons, groups, st) ==
    LET kind == DKind(reasons, groups, st)
    IN  CASE kind = "nextResult" -> DNextResult(st)
          [] kind = "skipGroup" -> DNextGroup(st)
          [] kind = "endGroup" -> DNextGroup(st)
          [] kind = "noMatch" -> DNextRule(st)
          [] kind = "empty" -> DNextRule(st)
          [] kind = "merge" -> DMerge(groups, st)
          [] kind = "break" -> DBreak(groups, st)
          [] kind = "push" -> DPush(reasons, groups, st)
          [] OTHER -> st

RECURSIVE DRun(_, _, _)
DRun(reasons, groups, st) ==
    IF DDone(st) THEN st ELSE DRun(reasons, groups, DStep(reasons, groups, st))

(* deinflect(difReasons, difRuleGroups, word): the returned worklist. *)
deinflect(reasons, groups, word) == DRun(reasons, groups, DInit(word)).results

(***************************************************************************)
(* EntryParser: parseWordDictLine(line), the match of                      *)
(*     /^(.+?)\s+(?:\[(.*?)\])?\s*\/(.+)\//                                *)
(* with the priorities of a backtracking matcher: the shortest headword,   *)
(* then the bracketed reading if one can be matched, the shortest reading, *)
(* the longest gloss text.  Positions here are 1-based sequence indexes.   *)
(***************************************************************************)
(* \s and . on the characters of the model. *)
IsSpace(c) == c \in {ChSpace, ChTab, ChNL}
IsDot(c) == c # ChNL

(* The first position >= j that holds no white space (Len + 1 if none). *)
SpaceRunEnd(line, j) ==
    LET stops == {q \in j..Len(line) : ~IsSpace(line[q])}
    IN  IF stops = {} THEN Len(line) + 1
        ELSE CHOOSE q \in stops : \A x \in stops : q <= x

(* \/(.+)\/ with the first slash at position q - 1: the positions of a
   closing slash, (.+) being line[q..p-1]. *)
GlossEnds(line, q) ==
    {p \in (q + 1)..Len(line) :
        line[p] = ChSlash /\ \A x \in q..(p - 1) : IsDot(line[x])}
(* The lazy variant \/(.+?)\/, which stops at the first closing slash. *)
GlossMatchLazy(line, q) ==
    IF q - 1 >= 1 /\ q - 1 <= Len(line) /\ line[q - 1] = ChSlash /\ GlossEnds(line, q) # {}
    THEN LET p == CHOOSE y \in GlossEnds(line, q) : \A x \in GlossEnds(line, q) : y <= x
         IN  <<SubSeq(line, q, p - 1)>>
    ELSE <<>>
GlossMatch(line, q) ==
    IF q - 1 >= 1 /\ q - 1 <= Len(line) /\ line[q - 1] = ChSlash /\ GlossEnds(line, q) # {}
    THEN LET p == CHOOSE y \in GlossEnds(line, q) : \A x \in GlossEnds(line, q) : y >= x
         IN  <<SubSeq(line, q, p - 1)>>
    ELSE <<>>

(* (?:\[(.*?)\])?\s*\/(.+)\/ at position j, the first character after the
   white space that follows the headword.  The result is <<>> (no match) or
   <<[reading, glossText]>>. *)
BracketEnds(line, j) ==
    {c \in (j + 1)..Len(line) :
        /\ line[c] = ChRBr
        /\ \A x \in (j + 1)..(c - 1) : IsDot(line[x])
        /\ GlossMatch(line, SpaceRunEnd(line, c + 1) + 1) # <<>>}
TailMatch(line, j) ==
    IF j > Len(line) THEN <<>>
    ELSE IF line[j] = ChLBr /\ BracketEnds(line, j) # {}
    THEN LET c == CHOOSE y \in BracketEnds(line, j) : \A x \in BracketEnds(line, j) : y <= x
         IN  << [reading |-> SubSeq(line, j + 1, c - 1),
                 glossText |-> GlossMatch(line, SpaceRunEnd(line, c + 1) + 1)[1]] >>
    ELSE IF GlossMatch(line, j + 1) # <<>>
    THEN << [reading |-> <<>>, glossText |-> GlossMatch(line, j + 1)[1]] >>
    ELSE <<>>

(* The lengths k of a headword line[1..k] for which the rest matches. *)
HeadLengths(line) ==
    {k \in 1..Len(line) :
        /\ \A x \in 1..k : IsDot(line[x])
        /\ k + 1 <= Len(line) /\ IsSpace(line[k + 1])
        /\ TailMatch(line, SpaceRunEnd(line, k + 1)) # <<>>}

(* The parsed entry in a list of one, or the empty list for null. *)
parseWordDictLine(line) ==
    IF HeadLengths(line) = {} THEN <<>>
    ELSE LET k == CHOOSE y \in HeadLengths(line) : \A x \in HeadLengths(line) : y <= x
             tail == TailMatch(line, SpaceRunEnd(line, k + 1))[1]
         IN  << [word |-> SubSeq(line, 1, k),
                 pronunciation |-> tail.reading,
                 definitions |-> Split(tail.glossText, ChSlash),
                 pitchAccents |-> <<>>] >>

(***************************************************************************)
(* Number(string) on the strings of the model: decimal digits give their   *)
(* value, the empty string gives 0, anything else NaN.                     *)
(***************************************************************************)
NaN == 0 - 1
IsDigit(c) == c >= ChZero /\ c <= ChZero + 9
RECURSIVE DecimalValue(_)
DecimalValue(s) ==
    IF s = <<>> THEN 0
    ELSE 10 * DecimalValue(SubSeq(s, 1, Len(s) - 1)) + (s[Len(s)] - ChZero)
JsNumber(s) ==
    IF \A i \in 1..Len(s) : IsDigit(s[i]) THEN DecimalValue(s) ELSE NaN
MapNumber(strs) == [i \in 1..Len(strs) |-> JsNumber(strs[i])]
SomeNaN(nums) == \E i \in 1..Len(nums) : nums[i] = NaN

(***************************************************************************)
(* PitchAccentLookup: getPitchAccents(pitchData, word, pronunciation).     *)
(* The search state is [lo, hi, done, ret].                                *)
(***************************************************************************)
PInit(pitchData) == [lo |-> 0, hi |-> Len(pitchData) - 1, done |-> FALSE, ret |-> <<>>]

PMid(st) == (st.lo + st.hi) \div 2
PLine(pitchData, st) == pitchData[PMid(st) + 1]
(* The three fields of a line; a missing field is undefined. *)
PFields(line) == Split(line, ChTab)
PWordOf(line) == PFields(line)[1]
PReadingOf(line) == IF Len(PFields(line)) >= 2 THEN PFields(line)[2] ELSE <<>>
PHasAccents(line) == Len(PFields(line)) >= 3
PAccentsOf(line) == MapNumber(Split(PFields(line)[3], ChComma))
PInvalid(line) ==
    \/ PWordOf(line) = <<>>
    \/ PReadingOf(line) = <<>>
    \/ ~PHasAccents(line)
    \/ SomeNaN(PAccentsOf(line))

(* Mutant of PKind: the stored reading is compared as stored, without the
   normalisation to hiragana. *)
PKindRaw(pitchData, word, pronunciation, st) ==
    IF st.lo > st.hi THEN "exit"
    ELSE LET line == PLine(pitchData, st)
         IN  IF line = <<>> THEN "emptyLine"
             ELSE IF PInvalid(line) THEN "invalid"
             ELSE IF word = PWordOf(line)
                  THEN IF pronunciation = PReadingOf(line)
                       THEN "found"
                       ELSE IF StrLess(pronunciation, PReadingOf(line))
                            THEN "left" ELSE "right"
                  ELSE IF StrLess(word, PWordOf(line)) THEN "left" ELSE "right"

(* What the next iteration of the while loop does. *)
PKind(pitchData, word, pronunciation, st) ==
    IF st.lo > st.hi THEN "exit"
    ELSE LET line == PLine(pitchData, st)
         IN  IF line = <<>> THEN "emptyLine"
             ELSE IF PInvalid(line) THEN "invalid"
             ELSE IF word = PWordOf(line)
                  THEN IF \/ pronunciation = katakanaToHiragana(PReadingOf(line))
                          \/ pronunciation = PReadingOf(line)
                       THEN "found"
                       ELSE IF StrLess(pronunciation,
                                       katakanaToHiragana(PReadingOf(line)))
                            THEN "left" ELSE "right"
                  ELSE IF StrLess(word, PWordOf(line)) THEN "left" ELSE "right"

PStep(pitchData, word, pronunciation, st) ==
    LET kind == PKind(pitchData, word, pronunciation, st)
    IN  CASE kind = "found" ->
                [st EXCEPT !.done = TRUE, !.ret = PAccentsOf(PLine(pitchData, st))]
          [] kind = "left" -> [st EXCEPT !.hi = PMid(st) - 1]
          [] kind = "right" -> [st EXCEPT !.lo = PMid(st) + 1]
          [] OTHER -> [st EXCEPT !.done = TRUE, !.ret = <<>>]

RECURSIVE PRun(_, _, _, _)
PRun(pitchData, word, pronunciation, st) ==
    IF st.done THEN st.ret
    ELSE PRun(pitchData, word, pronunciation,
              PStep(pitchData, word, pronunciation, st))

(* Mutant of PReading: the reading is used as given. *)
PReadingAsGiven(word, pronunciation) == pronunciation
(* pronunciation = pronunciation || word *)
PReading(word, pronunciation) == IF pronunciation = <<>> THEN word ELSE pronunciation

getPitchAccents(pitchData, word, pronunciation) ==
    PRun(pitchData, word, PReading(word, pronunciation), PInit(pitchData))

(***************************************************************************)
(* WordSearch: the index binary search of searchWord.  Positions are the   *)
(* 0-based positions of the code; lo and hi delimit the part of the index  *)
(* text still to be searched.                                              *)
(***************************************************************************)
mid(lo, hi) == (lo + hi) \div 2
midLineIndex(wordDictIndex, lo, hi) == LastIndexOf(wordDictIndex, ChNL, mid(lo, hi)) + 1
midLineEndIndex(wordDictIndex, lo, hi) ==
    IndexOf(wordDictIndex, ChNL, midLineIndex(wordDictIndex, lo, hi))
midLine(wordDictIndex, lo, hi) ==
    Slice(wordDictIndex, midLineIndex(wordDictIndex, lo, hi),
          midLineEndIndex(wordDictIndex, lo, hi))
(* const [midWord, ...midIndexStrings] = midLine.split(",") *)
midWord(wordDictIndex, lo, hi) == Split(midLine(wordDictIndex, lo, hi), ChComma)[1]
midIndexStrings(wordDictIndex, lo, hi) == Tail(Split(midLine(wordDictIndex, lo, hi), ChComma))
midIndexes(wordDictIndex, lo, hi) == MapNumber(midIndexStrings(wordDictIndex, lo, hi))
wordHiragana(word) == Normalize(word)

(* What the next iteration of the while loop does. *)
SKind(wordDictIndex, word, lo, hi) ==
    IF lo > hi THEN "exhausted"
    ELSE IF midWord(wordDictIndex, lo, hi) = <<>> THEN "noKey"
    ELSE IF SomeNaN(midIndexes(wordDictIndex, lo, hi)) THEN "nanOffset"
    ELSE IF midWord(wordDictIndex, lo, hi) = wordHiragana(word) THEN "hit"
    ELSE IF StrLess(midWord(wordDictIndex, lo, hi), wordHiragana(word)) THEN "right"
    ELSE "left"

(* lo = midLineEndIndex + 1 / hi = midLineIndex - 1 *)
SNarrow(wordDictIndex, word, lo, hi) ==
    IF SKind(wordDictIndex, word, lo, hi) = "right"
    THEN [lo |-> midLineEndIndex(wordDictIndex, lo, hi) + 1, hi |-> hi]
    ELSE [lo |-> lo, hi |-> midLineIndex(wordDictIndex, lo, hi) - 1]

(* The whole search for one word: how it ends and the offsets it yields.
   "loops" is the search that comes back to a range it has seen. *)
RECURSIVE SRun(_, _, _, _, _)
SRun(wordDictIndex, word, lo, hi, seen) ==
    LET kind == SKind(wordDictIndex, word, lo, hi)
        next == SNarrow(wordDictIndex, word, lo, hi)
    IN  IF kind = "hit"
        THEN [outcome |-> "hit", offsets |-> midIndexes(wordDictIndex, lo, hi)]
        ELSE IF kind \in {"exhausted", "noKey", "nanOffset"}
        THEN [outcome |-> kind, offsets |-> <<>>]
        ELSE IF <<next.lo, next.hi>> \in seen
        THEN [outcome |-> "loops", offsets |-> <<>>]
        ELSE SRun(wordDictIndex, word, next.lo, next.hi,
                  seen \cup {<<next.lo, next.hi>>})
SProbe(wordDictIndex, word) ==
    SRun(wordDictIndex, word, 0, Len(wordDictIndex) - 1, {<<0, Len(wordDictIndex) - 1>>})

(* wordDict.slice(widx, wordDict.indexOf("\n", widx)) *)
DictLineAt(wordDict, widx) == Slice(wordDict, widx, IndexOf(wordDict, ChNL, widx))

(* The entry of one offset with its pitch accents, in a list of one; the
   empty list when the line does not parse (filter(Boolean)). *)
EntryAt(wordDict, pitchData, widx) ==
    LET found == parseWordDictLine(DictLineAt(wordDict, widx))
    IN  IF found = <<>> THEN <<>>
        ELSE << [found[1] EXCEPT !.pitchAccents =
                    getPitchAccents(pitchData, found[1].word, found[1].pronunciation)] >>

RECURSIVE newEntries(_, _, _)
newEntries(wordDict, pitchData, idxs) ==
    IF idxs = <<>> THEN <<>>
    ELSE EntryAt(wordDict, pitchData, Head(idxs))
            \o newEntries(wordDict, pitchData, Tail(idxs))

(* The positions on the index line of the offsets whose lines parse. *)
KeptOffsets(wordDict, idxs) ==
    SelectSeq([k \in 1..Len(idxs) |-> k],
              LAMBDA k : parseWordDictLine(DictLineAt(wordDict, idxs[k])) # <<>>)

(* Mutant of PushEntries: the new entries go to the front of the list. *)
UnshiftEntries(entries, found) == found \o entries
(* wordEntries.push(...newEntries) *)
PushEntries(entries, found) == entries \o found

(* Mutant of SelectLength: the length of the latest matching prefix. *)
SelectLatest(selected, textLength) == textLength
(* selectedTextLength = Math.max(selectedTextLength, text.length) *)
SelectLength(selected, textLength) == Max(selected, textLength)

(***************************************************************************)
(* Inputs of the deinflection runs.                                        *)
(***************************************************************************)
MkRule(from, to, mask, reason) ==
    [from |-> from, to |-> to, typeMask |-> mask, reasonIndex |-> reason]

(* The rule lines of a deinflect.txt, in file order.  A typeMask holds the
   source types in its low byte and the result types in its high byte. *)
RulePool ==
    << MkRule(<<HiraI>>, <<HiraU>>, 257, 0),
       MkRule(<<HiraI>>, <<HiraA>>, 257, 1),
       MkRule(<<HiraA>>, <<HiraU>>, 513, 0),
       MkRule(<<HiraU>>, <<HiraKa>>, 258, 2),
       MkRule(<<HiraA, HiraI>>, <<HiraI>>, 511, 1),
       MkRule(<<HiraKa>>, <<>>, 257, 0),
       MkRule(<<HiraU>>, <<HiraI>>, 257, 0),
       MkRule(<<HiraI>>, <<HiraKa>>, 256, 0) >>

(* The rules of the pool at the positions of sel, in file order. *)
RECURSIVE PickRules(_, _)
PickRules(sel, k) ==
    IF k > Len(RulePool) THEN <<>>
    ELSE (IF k \in sel THEN <<RulePool[k]>> ELSE <<>>) \o PickRules(sel, k + 1)

(* Grouping of the rules as they are parsed: a new group starts whenever the
   length of `from` differs from that of the previous rule. *)
RECURSIVE GroupRules(_, _)
GroupRules(rules, groups) ==
    IF rules = <<>> THEN groups
    ELSE LET rule == Head(rules)
             n == Len(groups)
         IN  IF n > 0 /\ groups[n].fromLength = Len(rule.from)
             THEN GroupRules(Tail(rules),
                             [groups EXCEPT ![n].rules = Append(@, rule)])
             ELSE GroupRules(Tail(rules),
                             Append(groups, [fromLength |-> Len(rule.from),
                                             rules |-> <<rule>>]))

RuleGroupLists == {GroupRules(PickRules(sel, 1), <<>>) : sel \in SUBSET (1..Len(RulePool))}

(* Reason tables: complete, too short, and with an empty reason string. *)
ReasonTables ==
    { << <<ChLatA>>, <<ChLatK>>, <<ChLatX>> >>,
      << <<ChLatA>> >>,
      << <<ChLatA>>, <<>>, <<ChLatX>> >> }

DWords == StrOver({HiraA, HiraI, HiraU}, 1, MaxWordLen)

(***************************************************************************)
(* Inputs of the pitch-accent lookups.                                     *)
(***************************************************************************)
MaxReadingLen == 2

PitchLine(word, reading, accents) == word \o <<ChTab>> \o reading \o <<ChTab>> \o accents

(* Lines of a pitch-accents.txt, sorted ascending by (word, reading). *)
PitchPool ==
    << PitchLine(<<HiraA>>, <<KataU>>, <<ChZero>>),
       PitchLine(<<HiraA>>, <<KataU, KataKa>>, <<ChZero + 1>>),
       PitchLine(<<HiraA>>, <<KataKa>>, <<ChZero + 2>>),
       PitchLine(<<HiraA>>, <<KataKa, KataU>>, <<ChZero + 3>>),
       PitchLine(<<HiraKa>>, <<KataU>>, <<ChZero + 4>>),
       PitchLine(<<HiraKa>>, <<KataKa>>, <<ChZero, ChComma, ChZero + 5>>) >>

RECURSIVE PickLines(_, _)
PickLines(sel, k) ==
    IF k > Len(PitchPool) THEN <<>>
    ELSE (IF k \in sel THEN <<PitchPool[k]>> ELSE <<>>) \o PickLines(sel, k + 1)

(* A damaged line: the accent is not a number / the accent field is gone. *)
BadAccent(line) == PitchLine(PWordOf(line), PReadingOf(line), <<ChLatX>>)
NoAccent(line) == PWordOf(line) \o <<ChTab>> \o PReadingOf(line)
Damage(lines, how) ==
    IF lines = <<>> \/ how = "none" THEN lines
    ELSE IF how = "badAccent" THEN [lines EXCEPT ![1] = BadAccent(@)]
    ELSE [lines EXCEPT ![Len(lines)] = NoAccent(@)]

(* loadPitchData: text.split("\n"); a final newline leaves an empty last line. *)
PitchTables ==
    {Damage(PickLines(sel, 1), how) \o tail :
        sel \in SUBSET (1..Len(PitchPool)),
        how \in {"none", "badAccent", "noAccent"},
        tail \in {<<>>, << <<>> >>}}

(* Further damaged lines: the accent field is there but empty, the word is
   empty, the reading is empty, the line holds the word only, the line is
   empty. *)
Garble(line, how) ==
    CASE how = "emptyAccent" -> PitchLine(PWordOf(line), PReadingOf(line), <<>>)
      [] how = "noWord" -> PitchLine(<<>>, PReadingOf(line), PFields(line)[3])
      [] how = "noReading" -> PitchLine(PWordOf(line), <<>>, PFields(line)[3])
      [] how = "wordOnly" -> PWordOf(line)
      [] how = "emptyLine" -> <<>>
GarbledTables ==
    {[PitchPool EXCEPT ![at] = Garble(@, how)] :
        at \in 1..Len(PitchPool),
        how \in {"emptyAccent", "noWord", "noReading", "wordOnly", "emptyLine"}}

PitchWords == {<<HiraA>>, <<HiraI>>, <<HiraKa>>}
PitchReadings ==
    {<<>>} \cup StrOver({HiraU, HiraKa}, 1, MaxReadingLen)
           \cup StrOver({KataU, KataKa}, 1, MaxReadingLen)

(***************************************************************************)
(* Inputs of the entry parser: entries and the lines built from them.      *)
(***************************************************************************)
MaxHeadLen == 2

(* join(sep) *)
RECURSIVE Join(_, _)
Join(strs, sep) ==
    IF strs = <<>> THEN <<>>
    ELSE IF Len(strs) = 1 THEN strs[1]
    ELSE strs[1] \o <<sep>> \o Join(Tail(strs), sep)

(* The line `HEADWORD [READING] /gloss1/gloss2/.../` of an entry; the
   bracketed reading is left out when the entry has no reading. *)
FormatEntry(e) ==
    e.word \o <<ChSpace>>
        \o (IF e.reading = <<>> THEN <<>>
            ELSE <<ChLBr>> \o e.reading \o <<ChRBr, ChSpace>>)
        \o <<ChSlash>> \o Join(e.glosses, ChSlash) \o <<ChSlash>>

Headwords == StrOver({HiraA, ChSpace, ChSlash, ChLBr}, 1, MaxHeadLen)
Readings == StrOver({HiraKa, ChRBr, ChSlash}, 0, MaxReadingLen)
GlossLists ==
    { << <<>> >>, << <<ChLatA>> >>, << <<ChLatA, ChSpace, ChLatK>> >>,
      << <<>>, <<>> >>, << <<>>, <<ChLatA>> >>, << <<ChLatA>>, <<ChLatK>> >>,
      << <<ChLBr, ChLatA, ChRBr>>, <<ChLatK>>, <<>> >> }
Entries == [word : Headwords, reading : Readings, glosses : GlossLists]

(***************************************************************************)
(* Inputs of the searchWord calls: a dictionary text, index texts over its *)
(* lines, rule lists, a pitch table and query texts.                       *)
(***************************************************************************)
MaxTextLen == 3

(* The lines of a dict.txt; the second one is not an entry. *)
DictLines ==
    << <<HiraA, ChSpace, ChSlash, ChLatA, ChSlash>>,
       <<ChLatX>>,
       <<HiraKa, ChSpace, ChSlash, ChLatK, ChSlash>>,
       <<HiraI, ChSpace, ChLBr, KataKa, ChRBr, ChSpace,
         ChSlash, ChLatK, ChSlash, ChLatA, ChSlash>> >>
DictText == Join(DictLines, ChNL) \o <<ChNL>>

(* The position in DictText of the first character of line k. *)
RECURSIVE OffsetOfLine(_)
OffsetOfLine(k) ==
    IF k = 1 THEN 0 ELSE OffsetOfLine(k - 1) + Len(DictLines[k - 1]) + 1

(* The decimal digits of a natural number. *)
RECURSIVE Decimal(_)
Decimal(n) ==
    IF n < 10 THEN <<ChZero + n>>
    ELSE Decimal(n \div 10) \o <<ChZero + (n % 10)>>

(* The index line `key,offset1,offset2,...`. *)
RECURSIVE OffsetFields(_)
OffsetFields(offsets) ==
    IF offsets = <<>> THEN <<>>
    ELSE <<ChComma>> \o Decimal(Head(offsets)) \o OffsetFields(Tail(offsets))
IndexLine(key, offsets) == key \o OffsetFields(offsets)

(* Lines of a dict.idx, sorted ascending by key. *)
IndexPool ==
    << IndexLine(<<HiraI>>, <<OffsetOfLine(4), OffsetOfLine(1)>>),
       IndexLine(<<HiraKa>>, <<OffsetOfLine(2), OffsetOfLine(3)>>),
       IndexLine(<<HiraKa, HiraA>>, <<OffsetOfLine(1)>>),
       IndexLine(<<HiraKa, HiraU>>, <<OffsetOfLine(3), OffsetOfLine(4)>>) >>

RECURSIVE PickIndexLines(_, _)
PickIndexLines(sel, k) ==
    IF k > Len(IndexPool) THEN <<>>
    ELSE (IF k \in sel THEN <<IndexPool[k]>> ELSE <<>>) \o PickIndexLines(sel, k + 1)

(* Defects of an index: line k loses its key, line k gets an offset that is
   not a number, an empty line comes before line k. *)
IndexDefects(lines) ==
    {[how |-> "none", at |-> 0]}
        \cup [how : {"noKey", "nanOffset"}, at : 1..Len(lines)]
        \cup [how : {"emptyLine"}, at : 1..(Len(lines) + 1)]
Spoil(lines, defect) ==
    CASE defect.how = "none" -> lines
      [] defect.how = "noKey" ->
            [lines EXCEPT ![defect.at] = SliceFrom(@, IndexOf(@, ChComma, 0))]
      [] defect.how = "nanOffset" ->
            [lines EXCEPT ![defect.at] = @ \o <<ChLatX>>]
      [] defect.how = "emptyLine" ->
            SubSeq(lines, 1, defect.at - 1) \o << <<>> >>
                \o SubSeq(lines, defect.at, Len(lines))

(* The index texts: the lines joined by newlines, each followed by a
   newline; the sound ones also without the newline after the last line. *)
IndexTexts ==
    UNION { { Join(Spoil(PickIndexLines(sel, 1), defect), ChNL) \o <<ChNL>> :
                defect \in IndexDefects(PickIndexLines(sel, 1)) } :
            sel \in SUBSET (1..Len(IndexPool)) }
        \cup { Join(PickIndexLines(sel, 1), ChNL) : sel \in SUBSET (1..Len(IndexPool)) }

SearchRuleLists == {<<>>, GroupRules(PickRules({1, 2, 5}, 1), <<>>)}
SearchReasons == << <<ChLatA>>, <<ChLatK>>, <<ChLatX>> >>

Bundles ==
    [wordDict : {DictText},
     wordDictIndex : IndexTexts,
     difReasons : {SearchReasons},
     difRules : SearchRuleLists,
     pitchData : {PitchPool}]

SearchTexts == StrOver({HiraI, KataKa, ChLatA}, 0, MaxTextLen)

(***************************************************************************)
(* State.                                                                  *)
(***************************************************************************)
VARIABLES
    mode,               \* which operation the run exercises
    dReasons,           \* deinflect: difReasons
    dGroups,            \* deinflect: difRuleGroups
    dWord,              \* deinflect: the input word
    results,            \* deinflect: the worklist
    wordToResultIndex,  \* deinflect: word -> worklist position
    ri, gi, ui,         \* deinflect: positions of the result/group/rule loops
    curType,            \* deinflect: `type` of the entry being processed
    typeAtVisit,        \* history: the `type` read from each entry visited so far
    applied,            \* history: per entry, the reasons of the rules that led to
                        \* it, in the order the rules were applied
    pitchData,          \* getPitchAccents: the lines of pitch-accents.txt
    pWord,              \* getPitchAccents: parameter word
    pReading,           \* getPitchAccents: parameter pronunciation as passed
    pronunciation,      \* getPitchAccents: pronunciation || word
    plo, phi,           \* getPitchAccents: lo, hi
    ppc,                \* getPitchAccents: "start", "loop" or "done"
    pRet,               \* getPitchAccents: the returned accent list
    entry,              \* parseWordDictLine: the entry the line is built from
    line,               \* parseWordDictLine: parameter line
    parsed,             \* parseWordDictLine: the result, <<>> for null
    epc,                \* parseWordDictLine: "call" or "done"
    dictionaries,       \* searchWord: parameter dictionaries
    query,              \* searchWord: parameter text as passed
    text,               \* searchWord: text, shortened by the prefix loop
    deinflections,      \* searchWord: the candidates of the current prefix
    ci,                 \* searchWord: position in deinflections (from 1)
    searchedWords,      \* searchWord: the words already probed
    lo,                 \* searchWord: binary search bound
    hi,                 \* searchWord: binary search bound
    wordEntries,        \* searchWord: the entries found so far
    selectedTextLength, \* searchWord: the longest matching prefix length
    spc,                \* searchWord: "prefix", "candidate", "probe", "returned"
    probes,             \* history: the finished probes, in order
    entryTags,          \* history: where each entry of wordEntries was found
    calls,              \* concurrent calls: the locals of each call
    shared,             \* concurrent calls: the bundle the calls are given
    loaded,             \* history: the bundle as it was loaded
    electronAPI,        \* App: whether globalThis.electronAPI is defined
    retrieval,          \* App: per asset, where its retrieval stands and what it gave
    attempts,           \* history: per asset, the retrievals that were started
    finished,           \* history: the assets in the order their retrievals settled
    effectPc,           \* App: the async function of the loading effect
    cancelled,          \* App: cancelled, set by the cleanup of the loading effect
    appDictionaries,    \* App: the state `dictionaries`, {} for null
    inputValue,         \* App: the state `inputValue`
    view,               \* App: what the last render saw and showed
    debounceTimer,      \* App: the pending timer, {} for none
    searchCalls,        \* history: the searchWord calls made
    entriesFrom,        \* App: the call whose result `entries` holds, {} for []
    kInput,             \* katakanaToHiragana: the argument
    kOnce,              \* katakanaToHiragana(kInput)
    kTwice,             \* katakanaToHiragana(kOnce)
    kpc,                \* "start", "once", "twice"
    fBuffer,            \* parseDeinflectionData: the lines of deinflect.txt
    fNext,              \* parseDeinflectionData: position of the iterator `lines`
    currentLength,      \* parseDeinflectionData: currentLength
    difReasons,         \* parseDeinflectionData: difReasons
    difRules,           \* parseDeinflectionData: difRules (`group` is its last element)
    fpc,                \* "header", "lines", "returned"
    mReading,           \* getMoras: pronunciation
    mNext,              \* getMoras: position of the loop over the characters
    moras,              \* getMoras: moras
    currentMora,        \* getMoras: currentMora
    mpc,                \* "loop", "returned"
    running,            \* App: the locals of the searchWord call of the timer callback, {} when none
    unchangedFor,       \* App: milliseconds since inputValue last changed, up to the debounce delay
    inputChanges,       \* App: number of input changes so far
    list,               \* DictionaryResults: list
    activeIndex,        \* DictionaryResults: activeIndex
    lastEvent           \* DictionaryResults: history, the latest event

dVars == <<dReasons, dGroups, dWord, results, wordToResultIndex, ri, gi, ui,
           curType, typeAtVisit, applied>>
pVars == <<pitchData, pWord, pReading, pronunciation, plo, phi, ppc, pRet>>
eVars == <<entry, line, parsed, epc>>
sVars == <<dictionaries, query, text, deinflections, ci, searchedWords, lo, hi,
           wordEntries, selectedTextLength, spc, probes, entryTags>>
cVars == <<calls, shared, loaded>>
aVars == <<electronAPI, retrieval, attempts, finished, effectPc, cancelled,
           appDictionaries, inputValue, view, debounceTimer, searchCalls,
           entriesFrom>>
kVars == <<kInput, kOnce, kTwice, kpc>>
fVars == <<fBuffer, fNext, currentLength, difReasons, difRules, fpc>>
mVars == <<mReading, mNext, moras, currentMora, mpc>>
tVars == <<running, unchangedFor, inputChanges>>
rVars == <<list, activeIndex, lastEvent>>
vars == <<mode, dVars, pVars, eVars, sVars, cVars, aVars, kVars, fVars, mVars, tVars, rVars>>

DIdle ==
    /\ dReasons = <<>> /\ dGroups = <<>> /\ dWord = <<>>
    /\ results = <<>> /\ wordToResultIndex = <<>>
    /\ ri = 0 /\ gi = 0 /\ ui = 0 /\ curType = 0
    /\ typeAtVisit = <<>> /\ applied = <<>>

PIdle ==
    /\ pitchData = <<>> /\ pWord = <<>> /\ pReading = <<>> /\ pronunciation = <<>>
    /\ plo = 0 /\ phi = 0 /\ ppc = "idle" /\ pRet = <<>>

EIdle == entry = <<>> /\ line = <<>> /\ parsed = <<>> /\ epc = "idle"

CIdle == calls = <<>> /\ shared = <<>> /\ loaded = <<>>

AIdle ==
    /\ electronAPI = FALSE /\ retrieval = <<>> /\ attempts = <<>> /\ finished = <<>>
    /\ effectPc = "idle" /\ cancelled = FALSE /\ appDictionaries = {}
    /\ inputValue = <<>> /\ view = <<>> /\ debounceTimer = {}
    /\ searchCalls = <<>> /\ entriesFrom = {}

KIdle == kInput = <<>> /\ kOnce = <<>> /\ kTwice = <<>> /\ kpc = "idle"

TIdle == running = {} /\ unchangedFor = 0 /\ inputChanges = 0
RIdle == list = <<>> /\ activeIndex = 0 /\ lastEvent = "none"

MIdle ==
    /\ mReading = <<>> /\ mNext = 0 /\ moras = <<>> /\ currentMora = <<>> /\ mpc = "idle"

FIdle ==
    /\ fBuffer = <<>> /\ fNext = 0 /\ currentLength = 0
    /\ difReasons = <<>> /\ difRules = <<>> /\ fpc = "idle"

SIdle ==
    /\ dictionaries = <<>> /\ query = <<>> /\ text = <<>>
    /\ deinflections = <<>> /\ ci = 0 /\ searchedWords = {}
    /\ lo = 0 /\ hi = 0 /\ wordEntries = <<>> /\ selectedTextLength = 0
    /\ spc = "idle" /\ probes = <<>> /\ entryTags = <<>>

(***************************************************************************)
(* deinflect, one loop step per action.                                    *)
(***************************************************************************)
DState ==
    [results |-> results, map |-> wordToResultIndex,
     i |-> ri, g |-> gi, r |-> ui, type |-> curType]

DSet(st) ==
    /\ results' = st.results
    /\ wordToResultIndex' = st.map
    /\ ri' = st.i /\ gi' = st.g /\ ui' = st.r
    /\ curType' = st.type

DIs(kind) == mode = "deinflect" /\ DKind(dReasons, dGroups, DState) = kind

DApply ==
    /\ DSet(DStep(dReasons, dGroups, DState))
    /\ typeAtVisit' = IF ri' # ri /\ ri' < Len(results')
                      THEN Append(typeAtVisit, curType')
                      ELSE typeAtVisit
    /\ applied' = IF Len(results') > Len(results)
                  THEN Append(applied,
                              Append(applied[ri + 1],
                                     ReasonAt(dReasons, DRule(dGroups, DState).reasonIndex)))
                  ELSE applied
    /\ UNCHANGED <<mode, dReasons, dGroups, dWord, pVars, eVars, sVars, cVars, aVars, kVars, fVars, mVars, tVars, rVars>>

(* for (const result of results): the next entry, appended ones included *)
DeinflectNextResult == DIs("nextResult") /\ DApply
(* if (word.length < difRuleGroup.fromLength) continue *)
DeinflectSkipGroup == DIs("skipGroup") /\ DApply
(* the rules of the group are exhausted *)
DeinflectEndGroup == DIs("endGroup") /\ DApply
(* if ((type & rule.typeMask) === 0 || end !== rule.from) continue *)
DeinflectNoMatch == DIs("noMatch") /\ DApply
(* if (newWord.length <= 0) continue *)
DeinflectEmpty == DIs("empty") /\ DApply
(* the word is already in the worklist: merge the result types *)
DeinflectMerge == DIs("merge") /\ DApply
(* the reason table lacks the reason: leave the group *)
DeinflectBreak == DIs("break") /\ DApply
(* a new worklist entry *)
DeinflectPush == DIs("push") /\ DApply

InitDeinflect ==
    /\ mode = "deinflect"
    /\ dReasons \in ReasonTables
    /\ dGroups \in RuleGroupLists
    /\ dWord \in DWords
    /\ results = DInit(dWord).results
    /\ wordToResultIndex = DInit(dWord).map
    /\ ri = 0 /\ gi = 0 /\ ui = 0
    /\ curType = AllTypes
    /\ typeAtVisit = <<AllTypes>>
    /\ applied = << <<>> >>
    /\ PIdle /\ EIdle /\ SIdle /\ CIdle /\ AIdle /\ KIdle /\ FIdle /\ MIdle /\ TIdle /\ RIdle

NextDeinflect ==
    \/ DeinflectNextResult
    \/ DeinflectSkipGroup
    \/ DeinflectEndGroup
    \/ DeinflectNoMatch
    \/ DeinflectEmpty
    \/ DeinflectMerge
    \/ DeinflectBreak
    \/ DeinflectPush

SpecDeinflect == InitDeinflect /\ [][NextDeinflect]_vars

(***************************************************************************)
(* deinflect on rule lists that may hold a rule whose `to` is longer than  *)
(* its `from`.  The model follows a run up to words of MaxGrowLen          *)
(* characters; a run that goes on to a longer word leaves the model there. *)
(***************************************************************************)
MaxGrowLen == 4

(* A rule that lengthens the word and applies to its own result. *)
GrowRule == MkRule(<<HiraI>>, <<HiraI, HiraI>>, 257, 0)
GrowRuleLists ==
    {GroupRules(head \o PickRules(sel, 1), <<>>) :
        head \in {<<>>, <<GrowRule>>}, sel \in SUBSET {1, 4, 5, 6, 7}}

DWithinModel ==
    DKind(dReasons, dGroups, DState) = "push"
        => Len(DNewWord(dGroups, DState)) <= MaxGrowLen
DeinflectPushWithin == DWithinModel /\ DeinflectPush

InitDeinflectLive ==
    /\ mode = "deinflect"
    /\ dReasons \in {SearchReasons, <<SearchReasons[1]>>}
    /\ dGroups \in GrowRuleLists
    /\ dWord \in DWords
    /\ results = DInit(dWord).results
    /\ wordToResultIndex = DInit(dWord).map
    /\ ri = 0 /\ gi = 0 /\ ui = 0
    /\ curType = AllTypes
    /\ typeAtVisit = <<AllTypes>>
    /\ applied = << <<>> >>
    /\ PIdle /\ EIdle /\ SIdle /\ CIdle /\ AIdle /\ KIdle /\ FIdle /\ MIdle /\ TIdle /\ RIdle

NextDeinflectLive ==
    \/ DeinflectNextResult
    \/ DeinflectSkipGroup
    \/ DeinflectEndGroup
    \/ DeinflectNoMatch
    \/ DeinflectEmpty
    \/ DeinflectMerge
    \/ DeinflectBreak
    \/ DeinflectPushWithin

(* The function runs to its end once called: a loop that can take a step
   takes it. *)
DeinflectFairness == WF_vars(NextDeinflectLive)
SpecDeinflectLive ==
    InitDeinflectLive /\ [][NextDeinflectLive]_vars /\ DeinflectFairness

(***************************************************************************)
(* getPitchAccents, one loop iteration per action.                         *)
(***************************************************************************)
PState == [lo |-> plo, hi |-> phi, done |-> ppc = "done", ret |-> pRet]

PIs(kind) ==
    /\ mode = "pitch"
    /\ ppc = "loop"
    /\ PKind(pitchData, pWord, pronunciation, PState) = kind

PApply ==
    LET st == PStep(pitchData, pWord, pronunciation, PState)
    IN  /\ plo' = st.lo /\ phi' = st.hi /\ pRet' = st.ret
        /\ ppc' = IF st.done THEN "done" ELSE "loop"
        /\ UNCHANGED <<mode, dVars, eVars, sVars, cVars, aVars, kVars, fVars, mVars, tVars, rVars, pitchData, pWord, pReading, pronunciation>>

(* pronunciation = pronunciation || word; lo = 0; hi = pitchData.length - 1 *)
PitchStart ==
    /\ mode = "pitch"
    /\ ppc = "start"
    /\ pronunciation' = PReading(pWord, pReading)
    /\ plo' = PInit(pitchData).lo
    /\ phi' = PInit(pitchData).hi
    /\ ppc' = "loop"
    /\ UNCHANGED <<mode, dVars, eVars, sVars, cVars, aVars, kVars, fVars, mVars, tVars, rVars, pitchData, pWord, pReading, pRet>>
(* lo > hi: return [] *)
PitchExit == PIs("exit") /\ PApply
(* if (!line) return [] *)
PitchEmptyLine == PIs("emptyLine") /\ PApply
(* a field is missing or an accent is not a number: return [] *)
PitchInvalid == PIs("invalid") /\ PApply
(* return accents *)
PitchFound == PIs("found") /\ PApply
(* hi = mid - 1 *)
PitchLeft == PIs("left") /\ PApply
(* lo = mid + 1 *)
PitchRight == PIs("right") /\ PApply

InitPitch ==
    /\ mode = "pitch"
    /\ pitchData \in PitchTables \cup GarbledTables
    /\ pWord \in PitchWords
    /\ pReading \in PitchReadings
    /\ pronunciation = pReading
    /\ plo = 0 /\ phi = 0 /\ ppc = "start" /\ pRet = <<>>
    /\ DIdle /\ EIdle /\ SIdle /\ CIdle /\ AIdle /\ KIdle /\ FIdle /\ MIdle /\ TIdle /\ RIdle

NextPitch ==
    \/ PitchStart
    \/ PitchExit
    \/ PitchEmptyLine
    \/ PitchInvalid
    \/ PitchFound
    \/ PitchLeft
    \/ PitchRight

SpecPitch == InitPitch /\ [][NextPitch]_vars

(***************************************************************************)
(* parseWordDictLine applied to the line of an entry.                      *)
(***************************************************************************)
ECall ==
    /\ mode = "parse"
    /\ epc = "call"
    /\ parsed' = parseWordDictLine(line)
    /\ epc' = "done"
    /\ UNCHANGED <<mode, dVars, pVars, sVars, cVars, aVars, kVars, fVars, mVars, tVars, rVars, entry, line>>

(* the line matches: return { word, pronunciation, definitions, pitchAccents } *)
ParseEntry == parseWordDictLine(line) # <<>> /\ ECall
(* if (!word || !definitions) return null *)
ParseNull == parseWordDictLine(line) = <<>> /\ ECall

InitParse ==
    /\ mode = "parse"
    /\ entry \in Entries
    /\ line = FormatEntry(entry)
    /\ parsed = <<>>
    /\ epc = "call"
    /\ DIdle /\ PIdle /\ SIdle /\ CIdle /\ AIdle /\ KIdle /\ FIdle /\ MIdle /\ TIdle /\ RIdle

NextParse == ParseEntry \/ ParseNull

SpecParse == InitParse /\ [][NextParse]_vars

(***************************************************************************)
(* searchWord(dictionaries, text), one step per loop iteration.            *)
(***************************************************************************)
SWord == deinflections[ci].word
SKindNow == SKind(dictionaries.wordDictIndex, SWord, lo, hi)
SProbing == mode = "search" /\ spc = "probe"
SAtCandidate == mode = "search" /\ spc = "candidate"

(* The probe of the current candidate is over: note how it ended and go on
   with the next candidate. *)
SEndProbe(outcome, offsets) ==
    /\ probes' = Append(probes, [length |-> Len(text), candidate |-> ci,
                                 word |-> SWord, outcome |-> outcome,
                                 offsets |-> offsets])
    /\ ci' = ci + 1
    /\ spc' = "candidate"

(* for (; text.length > 0; ...): deinflect the normalised text *)
SearchPrefix ==
    /\ mode = "search" /\ spc = "prefix"
    /\ text # <<>>
    /\ deinflections' = deinflect(dictionaries.difReasons, dictionaries.difRules,
                                  Normalize(text))
    /\ ci' = 1
    /\ spc' = "candidate"
    /\ UNCHANGED <<mode, dVars, pVars, eVars, cVars, aVars, kVars, fVars, mVars, tVars, rVars, dictionaries, query, text,
                   searchedWords, lo, hi, wordEntries, selectedTextLength,
                   probes, entryTags>>

(* text.length = 0: return { selectedTextLength, wordEntries } *)
SearchReturn ==
    /\ mode = "search" /\ spc = "prefix"
    /\ text = <<>>
    /\ spc' = "returned"
    /\ UNCHANGED <<mode, dVars, pVars, eVars, cVars, aVars, kVars, fVars, mVars, tVars, rVars, dictionaries, query, text,
                   deinflections, ci, searchedWords, lo, hi, wordEntries,
                   selectedTextLength, probes, entryTags>>

(* the candidates are used up: text = text.slice(0, -1) *)
SearchNextPrefix ==
    /\ SAtCandidate
    /\ ci > Len(deinflections)
    /\ text' = Slice(text, 0, -1)
    /\ spc' = "prefix"
    /\ UNCHANGED <<mode, dVars, pVars, eVars, cVars, aVars, kVars, fVars, mVars, tVars, rVars, dictionaries, query,
                   deinflections, ci, searchedWords, lo, hi, wordEntries,
                   selectedTextLength, probes, entryTags>>

(* if (searchedWords.has(word)) continue *)
SearchSkip ==
    /\ SAtCandidate
    /\ ci <= Len(deinflections)
    /\ SWord \in searchedWords
    /\ ci' = ci + 1
    /\ UNCHANGED <<mode, dVars, pVars, eVars, cVars, aVars, kVars, fVars, mVars, tVars, rVars, dictionaries, query, text,
                   deinflections, searchedWords, lo, hi, wordEntries,
                   selectedTextLength, spc, probes, entryTags>>

(* Mutant of SearchStart: the word is not added to searchedWords. *)
SearchStartForgets ==
    /\ SAtCandidate
    /\ ci <= Len(deinflections)
    /\ SWord \notin searchedWords
    /\ lo' = 0
    /\ hi' = Len(dictionaries.wordDictIndex) - 1
    /\ spc' = "probe"
    /\ UNCHANGED <<mode, dVars, pVars, eVars, cVars, aVars, kVars, fVars, mVars, tVars, rVars, dictionaries, query,
                   text, deinflections, ci, searchedWords, wordEntries,
                   selectedTextLength, probes, entryTags>>

(* searchedWords.add(word); lo = 0; hi = wordDictIndex.length - 1 *)
SearchStart ==
    /\ SAtCandidate
    /\ ci <= Len(deinflections)
    /\ SWord \notin searchedWords
    /\ searchedWords' = searchedWords \cup {SWord}
    /\ lo' = 0
    /\ hi' = Len(dictionaries.wordDictIndex) - 1
    /\ spc' = "probe"
    /\ UNCHANGED <<mode, dVars, pVars, eVars, cVars, aVars, kVars, fVars, mVars, tVars, rVars, dictionaries, query, text,
                   deinflections, ci, wordEntries, selectedTextLength,
                   probes, entryTags>>

(* while (lo <= hi) is over *)
SearchExhausted ==
    /\ SProbing
    /\ SKindNow = "exhausted"
    /\ SEndProbe("exhausted", <<>>)
    /\ UNCHANGED <<mode, dVars, pVars, eVars, cVars, aVars, kVars, fVars, mVars, tVars, rVars, dictionaries, query, text,
                   deinflections, searchedWords, lo, hi, wordEntries,
                   selectedTextLength, entryTags>>

(* Mutant of SearchNoKey: the line without a key ends the whole call. *)
SearchNoKeyAborts ==
    /\ SProbing
    /\ SKindNow = "noKey"
    /\ probes' = Append(probes, [length |-> Len(text), candidate |-> ci,
                                 word |-> SWord, outcome |-> "noKey",
                                 offsets |-> <<>>])
    /\ spc' = "returned"
    /\ UNCHANGED <<mode, dVars, pVars, eVars, cVars, aVars, kVars, fVars, mVars, tVars, rVars, dictionaries, query, text,
                   deinflections, ci, searchedWords, lo, hi, wordEntries,
                   selectedTextLength, entryTags>>

(* if (!midWord) break *)
SearchNoKey ==
    /\ SProbing
    /\ SKindNow = "noKey"
    /\ SEndProbe("noKey", <<>>)
    /\ UNCHANGED <<mode, dVars, pVars, eVars, cVars, aVars, kVars, fVars, mVars, tVars, rVars, dictionaries, query, text,
                   deinflections, searchedWords, lo, hi, wordEntries,
                   selectedTextLength, entryTags>>

(* if (midIndexes.some(isNaN)) break *)
SearchNanOffset ==
    /\ SProbing
    /\ SKindNow = "nanOffset"
    /\ SEndProbe("nanOffset", <<>>)
    /\ UNCHANGED <<mode, dVars, pVars, eVars, cVars, aVars, kVars, fVars, mVars, tVars, rVars, dictionaries, query, text,
                   deinflections, searchedWords, lo, hi, wordEntries,
                   selectedTextLength, entryTags>>

(* midWord === wordHiragana: push the entries of the line's offsets *)
SearchHit ==
    /\ SProbing
    /\ SKindNow = "hit"
    /\ LET idxs == midIndexes(dictionaries.wordDictIndex, lo, hi)
       IN  /\ wordEntries' =
                PushEntries(wordEntries,
                            newEntries(dictionaries.wordDict, dictionaries.pitchData, idxs))
           /\ entryTags' =
                entryTags \o [k \in 1..Len(KeptOffsets(dictionaries.wordDict, idxs)) |->
                                [length |-> Len(text), candidate |-> ci,
                                 position |-> KeptOffsets(dictionaries.wordDict, idxs)[k],
                                 offset |-> idxs[KeptOffsets(dictionaries.wordDict, idxs)[k]]]]
           /\ SEndProbe("hit", idxs)
    /\ selectedTextLength' = SelectLength(selectedTextLength, Len(text))
    /\ UNCHANGED <<mode, dVars, pVars, eVars, cVars, aVars, kVars, fVars, mVars, tVars, rVars, dictionaries, query, text,
                   deinflections, searchedWords, lo, hi>>

(* midWord < wordHiragana: lo = midLineEndIndex + 1 *)
SearchRight ==
    /\ SProbing
    /\ SKindNow = "right"
    /\ lo' = SNarrow(dictionaries.wordDictIndex, SWord, lo, hi).lo
    /\ UNCHANGED <<mode, dVars, pVars, eVars, cVars, aVars, kVars, fVars, mVars, tVars, rVars, dictionaries, query, text,
                   deinflections, ci, searchedWords, hi, wordEntries,
                   selectedTextLength, spc, probes, entryTags>>

(* otherwise: hi = midLineIndex - 1 *)
SearchLeft ==
    /\ SProbing
    /\ SKindNow = "left"
    /\ hi' = SNarrow(dictionaries.wordDictIndex, SWord, lo, hi).hi
    /\ UNCHANGED <<mode, dVars, pVars, eVars, cVars, aVars, kVars, fVars, mVars, tVars, rVars, dictionaries, query, text,
                   deinflections, ci, searchedWords, lo, wordEntries,
                   selectedTextLength, spc, probes, entryTags>>

InitSearch ==
    /\ mode = "search"
    /\ dictionaries \in Bundles
    /\ query \in SearchTexts
    /\ text = query
    /\ deinflections = <<>> /\ ci = 1
    /\ searchedWords = {}
    /\ lo = 0 /\ hi = 0
    /\ wordEntries = <<>>
    /\ selectedTextLength = 1
    /\ spc = "prefix"
    /\ probes = <<>> /\ entryTags = <<>>
    /\ DIdle /\ PIdle /\ EIdle /\ CIdle /\ AIdle /\ KIdle /\ FIdle /\ MIdle /\ TIdle /\ RIdle

NextSearch ==
    \/ SearchPrefix \/ SearchReturn \/ SearchNextPrefix \/ SearchSkip
    \/ SearchStart \/ SearchExhausted \/ SearchNoKey \/ SearchNanOffset
    \/ SearchHit \/ SearchRight \/ SearchLeft

SpecSearch == InitSearch /\ [][NextSearch]_vars

(* The calls whose index holds every line of the pool, sound or with one
   defect, for the shorter queries.  A call is not held up: some step is
   taken as long as one changes the state. *)
LiveIndexTexts ==
    { Join(Spoil(IndexPool, defect), ChNL) \o <<ChNL>> : defect \in IndexDefects(IndexPool) }
        \cup { Join(IndexPool, ChNL) }
InitSearchLive ==
    /\ InitSearch
    /\ dictionaries.wordDictIndex \in LiveIndexTexts
    /\ Len(query) < MaxTextLen
(* ENABLED <<NextSearch>>_vars, spelled out: the call has not returned and
   its next step changes the state (a search whose range stays as it is
   takes no such step). *)
SCanStep ==
    /\ mode = "search"
    /\ spc # "returned"
    /\ ~ ( /\ spc = "probe"
           /\ SKindNow \in {"left", "right"}
           /\ SNarrow(dictionaries.wordDictIndex, SWord, lo, hi) = [lo |-> lo, hi |-> hi] )
(* The function runs to its end once called: a call that can take a step
   takes it.  The fairness of the return is stated on the action; that of
   the call as a whole is weak fairness of NextSearch written out, with
   SCanStep for its ENABLED predicate. *)
SearchFairness ==
    /\ WF_vars(SearchReturn)
    /\ ([]<>~SCanStep) \/ ([]<><<NextSearch>>_vars)
SpecSearchLive == InitSearchLive /\ [][NextSearch]_vars /\ SearchFairness

(* The calls on dictionary files of other shapes: a dict.txt whose last
   line ends with the file, no newline after it, and an index whose first
   line has one offset, that of the line of dict.txt that is not an entry. *)
DictTextOpen == Join(DictLines, ChNL)
StrayIndexText ==
    Join(<<IndexLine(<<HiraA, HiraA>>, <<OffsetOfLine(2)>>)>> \o IndexPool, ChNL) \o <<ChNL>>
InitSearchOpen ==
    /\ mode = "search"
    /\ dictionaries \in [wordDict : {DictText, DictTextOpen},
                          wordDictIndex : LiveIndexTexts \cup {StrayIndexText},
                          difReasons : {SearchReasons},
                          difRules : SearchRuleLists,
                          pitchData : {PitchPool}]
    /\ query \in SearchTexts
    /\ text = query
    /\ deinflections = <<>> /\ ci = 1
    /\ searchedWords = {}
    /\ lo = 0 /\ hi = 0
    /\ wordEntries = <<>>
    /\ selectedTextLength = 1
    /\ spc = "prefix"
    /\ probes = <<>> /\ entryTags = <<>>
    /\ DIdle /\ PIdle /\ EIdle /\ CIdle /\ AIdle /\ KIdle /\ FIdle /\ MIdle /\ TIdle /\ RIdle
SpecSearchOpen == InitSearchOpen /\ [][NextSearch]_vars

(***************************************************************************)
(* Several calls at once.  searchWord and deinflect keep their state in    *)
(* locals (wordEntries, searchedWords, results, wordToResultIndex, ...);   *)
(* the one value calls have in common is the bundle they are given.  A     *)
(* call is a record of its locals, and a step of the model is one step of  *)
(* one call.                                                               *)
(***************************************************************************)
(* The locals of a searchWord call at its start. *)
SearchInit(queryText) ==
    [query |-> queryText, text |-> queryText, deinflections |-> <<>>, ci |-> 1,
     searchedWords |-> {}, lo |-> 0, hi |-> 0, wordEntries |-> <<>>,
     selectedTextLength |-> 1, pc |-> "prefix"]

(* One step of searchWord on the locals st: the step of the actions
   SearchPrefix .. SearchLeft. *)
SearchStep(bundle, st) ==
    LET word == st.deinflections[st.ci].word
        kind == SKind(bundle.wordDictIndex, word, st.lo, st.hi)
    IN  CASE st.pc = "prefix" ->
                IF st.text = <<>> THEN [st EXCEPT !.pc = "returned"]
                ELSE [st EXCEPT !.deinflections =
                                    deinflect(bundle.difReasons, bundle.difRules,
                                              Normalize(st.text)),
                                !.ci = 1, !.pc = "candidate"]
          [] st.pc = "candidate" ->
                IF st.ci > Len(st.deinflections)
                THEN [st EXCEPT !.text = Slice(st.text, 0, -1), !.pc = "prefix"]
                ELSE IF word \in st.searchedWords
                THEN [st EXCEPT !.ci = st.ci + 1]
                ELSE [st EXCEPT !.searchedWords = st.searchedWords \cup {word},
                                !.lo = 0, !.hi = Len(bundle.wordDictIndex) - 1,
                                !.pc = "probe"]
          [] st.pc = "probe" ->
                IF kind = "hit"
                THEN [st EXCEPT !.wordEntries =
                                    PushEntries(st.wordEntries,
                                        newEntries(bundle.wordDict, bundle.pitchData,
                                            midIndexes(bundle.wordDictIndex, st.lo, st.hi))),
                                !.selectedTextLength =
                                    SelectLength(st.selectedTextLength, Len(st.text)),
                                !.ci = st.ci + 1, !.pc = "candidate"]
                ELSE IF kind = "right"
                THEN [st EXCEPT !.lo = SNarrow(bundle.wordDictIndex, word, st.lo, st.hi).lo]
                ELSE IF kind = "left"
                THEN [st EXCEPT !.hi = SNarrow(bundle.wordDictIndex, word, st.lo, st.hi).hi]
                ELSE [st EXCEPT !.ci = st.ci + 1, !.pc = "candidate"]
          [] OTHER -> st

(* return { selectedTextLength, wordEntries } *)
SearchResult(st) ==
    [selectedTextLength |-> st.selectedTextLength, wordEntries |-> st.wordEntries]

(* The call run alone, to its end. *)
RECURSIVE SearchRun(_, _)
SearchRun(bundle, st) ==
    IF st.pc = "returned" THEN SearchResult(st)
    ELSE SearchRun(bundle, SearchStep(bundle, st))
searchWord(bundle, queryText) == SearchRun(bundle, SearchInit(queryText))

MaxCalls == 2
CallIds == 1..MaxCalls

(* The bundles and arguments of the concurrent calls. *)
CallBundles ==
    [wordDict : {DictText},
     wordDictIndex : { Join(IndexPool, ChNL) \o <<ChNL>>,
                       Join(Spoil(IndexPool, [how |-> "nanOffset", at |-> 1]), ChNL) \o <<ChNL>>,
                       Join(SubSeq(IndexPool, 2, Len(IndexPool)), ChNL) \o <<ChNL>> },
     difReasons : {SearchReasons},
     difRules : SearchRuleLists \ {<<>>},
     pitchData : {PitchPool}]
CallArguments ==
    [op : {"searchWord"},
     arg : {<<KataKa, HiraI>>, <<KataKa>>, <<ChLatA, HiraI>>, <<HiraI>>}]
        \cup [op : {"deinflect"}, arg : {<<HiraI>>, <<HiraA, HiraI>>}]

CallInit(call) ==
    [op |-> call.op, arg |-> call.arg,
     st |-> IF call.op = "searchWord" THEN SearchInit(call.arg) ELSE DInit(call.arg)]
CallDone(call) ==
    IF call.op = "searchWord" THEN call.st.pc = "returned" ELSE DDone(call.st)
CallResult(call) ==
    IF call.op = "searchWord" THEN SearchResult(call.st) ELSE call.st.results
(* The result of the same call run alone on the bundle. *)
CallAlone(bundle, call) ==
    IF call.op = "searchWord" THEN searchWord(bundle, call.arg)
    ELSE deinflect(bundle.difReasons, bundle.difRules, call.arg)

(* Mutant of SeenBy: one set of probed words for all the calls. *)
SeenByAll(c) ==
    UNION {IF calls[k].op = "searchWord" THEN calls[k].st.searchedWords ELSE {} :
              k \in CallIds}
(* const searchedWords = new Set(): the set belongs to the call. *)
SeenBy(c) == calls[c].st.searchedWords

(* The locals the next step of call c works on. *)
CallView(c) ==
    IF calls[c].op = "searchWord"
    THEN [calls[c].st EXCEPT !.searchedWords = SeenBy(c)]
    ELSE calls[c].st

CallStepOf(c) ==
    /\ mode = "calls"
    /\ ~CallDone(calls[c])
    /\ calls' = [calls EXCEPT ![c].st =
                    IF calls[c].op = "searchWord"
                    THEN SearchStep(shared, CallView(c))
                    ELSE DStep(shared.difReasons, shared.difRules, CallView(c))]
    /\ UNCHANGED <<mode, dVars, pVars, eVars, sVars, aVars, kVars, fVars, mVars, tVars, rVars, shared, loaded>>

(* A step of a searchWord call / of a deinflect call. *)
CallSearchStep == \E c \in CallIds : calls[c].op = "searchWord" /\ CallStepOf(c)
CallDeinflectStep == \E c \in CallIds : calls[c].op = "deinflect" /\ CallStepOf(c)

InitCalls ==
    /\ mode = "calls"
    /\ loaded \in CallBundles
    /\ shared = loaded
    /\ calls \in [CallIds -> {CallInit(a) : a \in CallArguments}]
    /\ DIdle /\ PIdle /\ EIdle /\ SIdle /\ AIdle /\ KIdle /\ FIdle /\ MIdle /\ TIdle /\ RIdle

NextCalls == CallSearchStep \/ CallDeinflectStep

SpecCalls == InitCalls /\ [][NextCalls]_vars

(***************************************************************************)
(* App: loading of the four assets and the debounced search.               *)
(* A retrieval is a fetch that resolves or rejects at any moment; the      *)
(* payloads are not looked into here, a bundle records for each asset the  *)
(* channel its data came through.                                          *)
(***************************************************************************)
WordDictAsset == "word-dict.txt"
WordDictIndexAsset == "word-dict-index.txt"
DeinflectAsset == "deinflect.txt"
PitchAsset == "pitch-accents.txt"
Assets == {WordDictAsset, WordDictIndexAsset, DeinflectAsset, PitchAsset}

(* The assets each load operation retrieves. *)
LoadOps == {"loadWordDict", "loadDeinflectionData", "loadPitchData"}
AssetsOf(op) ==
    CASE op = "loadWordDict" -> {WordDictAsset, WordDictIndexAsset}
      [] op = "loadDeinflectionData" -> {DeinflectAsset}
      [] op = "loadPitchData" -> {PitchAsset}

(* catch (e) { if (electronAPI) ... readTextAsset(...) }: loadWordDict and
   loadPitchData have the handler, loadDeinflectionData has none. *)
HasFallback(asset) == asset # DeinflectAsset

MaxSearches == 2
InputValues == {<<>>, <<HiraI>>, <<HiraI, ChSpace>>}

(* inputValue.replace(/\s/g, "") *)
Cleaned(str) == SelectSeq(str, LAMBDA c : ~IsSpace(c))

(* Mutant of LoadSettled: the promise of a load operation and the joint
   promise are fulfilled by the first retrieval that succeeds. *)
LoadSettledByFirst(op) ==
    IF \E a \in AssetsOf(op) : retrieval[a].pc = "resolved" THEN "resolved"
    ELSE IF \E a \in AssetsOf(op) : retrieval[a].pc = "rejected" THEN "rejected"
    ELSE "pending"

(* The promise of a load operation: Promise.all rejects with the first
   rejection and resolves when every retrieval has resolved. *)
LoadSettled(op) ==
    IF \E a \in AssetsOf(op) : retrieval[a].pc = "rejected" THEN "rejected"
    ELSE IF \A a \in AssetsOf(op) : retrieval[a].pc = "resolved" THEN "resolved"
    ELSE "pending"

(* await Promise.all([loadWordDict(), loadDeinflectionData(), loadPitchData()]) *)
AllLoads ==
    IF \E op \in LoadOps : LoadSettled(op) = "rejected" THEN "rejected"
    ELSE IF \A op \in LoadOps : LoadSettled(op) = "resolved" THEN "resolved"
    ELSE "pending"

(* { wordDict, wordDictIndex, difReasons, difRules, pitchData } *)
BundleOf(retr) == [a \in Assets |-> retr[a].value]

(* A retrieval of the asset settles: the fetch or the readTextAsset call. *)
Settle(asset, pc, value) ==
    /\ retrieval' = [retrieval EXCEPT ![asset].pc = pc, ![asset].value = value]
    /\ finished' = IF pc \in {"resolved", "rejected"} THEN Append(finished, asset)
                   ELSE finished
    /\ UNCHANGED <<mode, dVars, pVars, eVars, sVars, cVars, kVars, fVars, mVars, tVars, rVars, electronAPI, attempts,
                   effectPc, cancelled, appDictionaries, inputValue, view,
                   debounceTimer, searchCalls, entriesFrom>>

(* fetch(...).then((r) => r.text()) resolves *)
FetchResolves ==
    \E a \in Assets :
        /\ mode = "app" /\ retrieval[a].pc = "fetch"
        /\ Settle(a, "resolved", "fetch")

(* fetch rejects and nothing catches it, or electronAPI is undefined: throw e *)
FetchRejects ==
    \E a \in Assets :
        /\ mode = "app" /\ retrieval[a].pc = "fetch"
        /\ ~(HasFallback(a) /\ electronAPI)
        /\ Settle(a, "rejected", "none")

(* fetch rejects: catch (e) { if (electronAPI) await electronAPI.readTextAsset(...) } *)
FetchFallsBack ==
    \E a \in Assets :
        /\ mode = "app" /\ retrieval[a].pc = "fetch"
        /\ HasFallback(a) /\ electronAPI
        /\ retrieval' = [retrieval EXCEPT ![a].pc = "readTextAsset"]
        /\ attempts' = [attempts EXCEPT ![a] = Append(@, "readTextAsset")]
        /\ UNCHANGED <<mode, dVars, pVars, eVars, sVars, cVars, kVars, fVars, mVars, tVars, rVars, electronAPI, finished,
                       effectPc, cancelled, appDictionaries, inputValue, view,
                       debounceTimer, searchCalls, entriesFrom>>

ReadResolves ==
    \E a \in Assets :
        /\ mode = "app" /\ retrieval[a].pc = "readTextAsset"
        /\ Settle(a, "resolved", "readTextAsset")

ReadRejects ==
    \E a \in Assets :
        /\ mode = "app" /\ retrieval[a].pc = "readTextAsset"
        /\ Settle(a, "rejected", "none")

AppFrame ==
    UNCHANGED <<mode, dVars, pVars, eVars, sVars, cVars, kVars, fVars, mVars, tVars, rVars, electronAPI, retrieval,
                attempts, finished>>

(* if (cancelled) return; setDictionaries({ ... }) *)
EffectSets ==
    /\ mode = "app" /\ effectPc = "awaiting"
    /\ AllLoads = "resolved"
    /\ ~cancelled
    /\ appDictionaries' = {BundleOf(retrieval)}
    /\ effectPc' = "set"
    /\ AppFrame
    /\ UNCHANGED <<cancelled, inputValue, view, debounceTimer, searchCalls, entriesFrom>>

EffectCancelled ==
    /\ mode = "app" /\ effectPc = "awaiting"
    /\ AllLoads = "resolved"
    /\ cancelled
    /\ effectPc' = "cancelled"
    /\ AppFrame
    /\ UNCHANGED <<cancelled, appDictionaries, inputValue, view, debounceTimer,
                   searchCalls, entriesFrom>>

(* the await throws: the async function of the effect rejects, unhandled *)
EffectRejects ==
    /\ mode = "app" /\ effectPc = "awaiting"
    /\ AllLoads = "rejected"
    /\ effectPc' = "rejected"
    /\ AppFrame
    /\ UNCHANGED <<cancelled, appDictionaries, inputValue, view, debounceTimer,
                   searchCalls, entriesFrom>>

(* the component unmounts: the cleanups of both effects run *)
Unmount ==
    /\ mode = "app" /\ ~cancelled
    /\ cancelled' = TRUE
    /\ debounceTimer' = {}
    /\ AppFrame
    /\ UNCHANGED <<effectPc, appDictionaries, inputValue, view, searchCalls, entriesFrom>>

(* handleTextChange: setInputValue(text) *)
InputChange ==
    \E t \in InputValues :
        /\ mode = "app" /\ ~cancelled
        /\ t # inputValue
        /\ inputValue' = t
        /\ AppFrame
        /\ UNCHANGED <<effectPc, cancelled, appDictionaries, view, debounceTimer,
                       searchCalls, entriesFrom>>

(* "Loading dictionary..." is rendered when !dictionaries *)
Notice(dicts) == dicts = {}

(* The component renders with the current state, and the effect with the
   dependencies [inputValue, dictionaries] runs: its cleanup clears the
   timer, and a timer is set unless dictionaries is null. *)
Render ==
    /\ mode = "app" /\ ~cancelled
    /\ \/ view.dictionaries # appDictionaries
       \/ view.inputValue # inputValue
    /\ view' = [dictionaries |-> appDictionaries, inputValue |-> inputValue,
                notice |-> Notice(appDictionaries)]
    /\ debounceTimer' =
            IF appDictionaries = {} THEN {}
            ELSE {[dictionaries |-> appDictionaries, inputValue |-> inputValue]}
    /\ AppFrame
    /\ UNCHANGED <<effectPc, cancelled, appDictionaries, inputValue, searchCalls,
                   entriesFrom>>

(* the timer fires: searchWord(dictionaries, cleaned); setEntries(res.wordEntries) *)
TimerFires ==
    /\ mode = "app"
    /\ debounceTimer # {}
    /\ Len(searchCalls) < MaxSearches
    /\ LET timer == CHOOSE t \in debounceTimer : TRUE
           call == [dictionaries |-> timer.dictionaries,
                    text |-> Cleaned(timer.inputValue)]
       IN  /\ searchCalls' = Append(searchCalls, call)
           /\ entriesFrom' = {call}
    /\ debounceTimer' = {}
    /\ AppFrame
    /\ UNCHANGED <<effectPc, cancelled, appDictionaries, inputValue, view>>

InitApp ==
    /\ mode = "app"
    /\ electronAPI \in BOOLEAN
    /\ retrieval = [a \in Assets |-> [pc |-> "fetch", value |-> "none"]]
    /\ attempts = [a \in Assets |-> <<"fetch">>]
    /\ finished = <<>>
    /\ effectPc = "awaiting"
    /\ cancelled = FALSE
    /\ appDictionaries = {}
    /\ inputValue = <<>>
    /\ view = [dictionaries |-> {}, inputValue |-> <<>>, notice |-> TRUE]
    /\ debounceTimer = {}
    /\ searchCalls = <<>>
    /\ entriesFrom = {}
    /\ DIdle /\ PIdle /\ EIdle /\ SIdle /\ CIdle /\ KIdle /\ FIdle /\ MIdle /\ TIdle /\ RIdle

NextApp ==
    \/ FetchResolves \/ FetchRejects \/ FetchFallsBack \/ ReadResolves \/ ReadRejects
    \/ EffectSets \/ EffectCancelled \/ EffectRejects
    \/ Unmount \/ InputChange \/ Render \/ TimerFires

SpecApp == InitApp /\ [][NextApp]_vars

(***************************************************************************)
(* The debounced search of App once the bundle is loaded, with the time of *)
(* the timer.  The component stays mounted.  An input change comes from a  *)
(* change event of the input field: the render and the effect with the     *)
(* dependencies [inputValue, dictionaries] run before the event is over.   *)
(* The timer callback runs searchWord step by step; nothing else happens   *)
(* on the thread while it runs.                                            *)
(***************************************************************************)
DebounceMs == 150
TickMs == 50
MaxInputChanges == 2
DebounceBundles ==
    [wordDict : {DictText},
     wordDictIndex : {Join(IndexPool, ChNL) \o <<ChNL>>, Join(IndexPool, ChNL)},
     difReasons : {SearchReasons},
     difRules : {<<>>},
     pitchData : {PitchPool}]
DebounceInputs ==
    {<<>>, <<HiraI>>, <<KataKa, KataKa>>, <<KataKa, ChSpace, KataKa>>}

TheBundle == CHOOSE b \in appDictionaries : TRUE
TheTimer == CHOOSE t \in debounceTimer : TRUE
TheCall == CHOOSE st \in running : TRUE
DFrameApp ==
    UNCHANGED <<mode, dVars, pVars, eVars, sVars, cVars, kVars, fVars, mVars, rVars,
                electronAPI, retrieval, attempts, finished, effectPc, cancelled,
                appDictionaries>>

(* window.setTimeout(() => { ... }, 150), after clearTimeout of the old one *)
SetTimer(value) ==
    {[dictionaries |-> appDictionaries, inputValue |-> value, due |-> DebounceMs]}

(* handleTextChange: setInputValue(text); the effect clears the timer and
   sets a new one *)
DebounceInput ==
    \E t \in DebounceInputs :
        /\ mode = "debounce" /\ running = {}
        /\ inputChanges < MaxInputChanges
        /\ t # inputValue
        /\ inputValue' = t
        /\ view' = [view EXCEPT !.inputValue = t]
        /\ debounceTimer' = SetTimer(t)
        /\ unchangedFor' = 0
        /\ inputChanges' = inputChanges + 1
        /\ DFrameApp
        /\ UNCHANGED <<searchCalls, entriesFrom, running>>

(* time passes, up to the moment the timer is due *)
DebounceTick ==
    /\ mode = "debounce" /\ running = {}
    /\ debounceTimer # {} /\ TheTimer.due > 0
    /\ debounceTimer' = {[TheTimer EXCEPT !.due = Max(@ - TickMs, 0)]}
    /\ unchangedFor' = Min(unchangedFor + TickMs, DebounceMs)
    /\ DFrameApp
    /\ UNCHANGED <<inputValue, view, searchCalls, entriesFrom, running, inputChanges>>

(* the timer fires: const cleaned = inputValue.replace(/\s/g, ""); the call
   searchWord(dictionaries, cleaned) starts *)
DebounceFires ==
    /\ mode = "debounce" /\ running = {}
    /\ debounceTimer # {} /\ TheTimer.due = 0
    /\ running' = {SearchInit(Cleaned(TheTimer.inputValue))}
    /\ searchCalls' = Append(searchCalls,
                             [dictionaries |-> TheTimer.dictionaries,
                              text |-> Cleaned(TheTimer.inputValue),
                              unchangedFor |-> unchangedFor])
    /\ debounceTimer' = {}
    /\ DFrameApp
    /\ UNCHANGED <<inputValue, view, entriesFrom, unchangedFor, inputChanges>>

(* one step of the searchWord call of the callback *)
DebounceSearches ==
    /\ mode = "debounce" /\ running # {}
    /\ TheCall.pc # "returned"
    /\ running' = {SearchStep(TheBundle, TheCall)}
    /\ DFrameApp
    /\ UNCHANGED <<inputValue, view, debounceTimer, searchCalls, entriesFrom,
                   unchangedFor, inputChanges>>

(* setEntries(res.wordEntries) *)
DebounceSetEntries ==
    /\ mode = "debounce" /\ running # {}
    /\ TheCall.pc = "returned"
    /\ entriesFrom' = {[dictionaries |-> appDictionaries, text |-> TheCall.query]}
    /\ running' = {}
    /\ DFrameApp
    /\ UNCHANGED <<inputValue, view, debounceTimer, searchCalls, unchangedFor, inputChanges>>

(* The bundle has just been set: the effect has run and set the timer for
   the input value of that moment. *)
InitDebounce ==
    /\ mode = "debounce"
    /\ electronAPI = FALSE
    /\ retrieval = <<>> /\ attempts = <<>> /\ finished = <<>>
    /\ effectPc = "set"
    /\ cancelled = FALSE
    /\ appDictionaries \in {{b} : b \in DebounceBundles}
    /\ inputValue \in DebounceInputs
    /\ view = [dictionaries |-> appDictionaries, inputValue |-> inputValue, notice |-> FALSE]
    /\ debounceTimer = SetTimer(inputValue)
    /\ searchCalls = <<>>
    /\ entriesFrom = {}
    /\ running = {} /\ unchangedFor = 0 /\ inputChanges = 0
    /\ DIdle /\ PIdle /\ EIdle /\ SIdle /\ CIdle /\ KIdle /\ FIdle /\ MIdle /\ RIdle

NextDebounce ==
    \/ DebounceInput \/ DebounceTick \/ DebounceFires
    \/ DebounceSearches \/ DebounceSetEntries

(* ENABLED <<DebounceSearches>>_vars, spelled out: the call has not
   returned and its next step changes its locals. *)
DCanSearch ==
    /\ mode = "debounce" /\ running # {}
    /\ TheCall.pc # "returned"
    /\ SearchStep(TheBundle, TheCall) # TheCall
(* Time passes, the event loop runs the timer that is due, and the callback
   runs on: each of these steps is taken when it can be.  The input changes
   are up to the user. *)
DebounceFairness ==
    /\ WF_vars(DebounceTick)
    /\ WF_vars(DebounceFires)
    /\ WF_vars(DebounceSetEntries)
    /\ ([]<>~DCanSearch) \/ ([]<><<DebounceSearches>>_vars)
SpecDebounce == InitDebounce /\ [][NextDebounce]_vars /\ DebounceFairness

(***************************************************************************)
(* katakanaToHiragana applied once and then to its own result.             *)
(***************************************************************************)
MaxKanaLen == 3
KanaChars == {KataFirst, KataLast, KataLast + 1, KataKa, HiraKa, ChLatA}

KanaOnce ==
    /\ mode = "kana" /\ kpc = "start"
    /\ kOnce' = katakanaToHiragana(kInput)
    /\ kpc' = "once"
    /\ UNCHANGED <<mode, dVars, pVars, eVars, sVars, cVars, aVars, fVars, mVars, tVars, rVars, kInput, kTwice>>

KanaTwice ==
    /\ mode = "kana" /\ kpc = "once"
    /\ kTwice' = katakanaToHiragana(kOnce)
    /\ kpc' = "twice"
    /\ UNCHANGED <<mode, dVars, pVars, eVars, sVars, cVars, aVars, fVars, mVars, tVars, rVars, kInput, kOnce>>

InitKana ==
    /\ mode = "kana"
    /\ kInput \in StrOver(KanaChars, 0, MaxKanaLen)
    /\ kOnce = <<>> /\ kTwice = <<>>
    /\ kpc = "start"
    /\ DIdle /\ PIdle /\ EIdle /\ SIdle /\ CIdle /\ AIdle /\ FIdle /\ MIdle /\ TIdle /\ RIdle

NextKana == KanaOnce \/ KanaTwice

SpecKana == InitKana /\ [][NextKana]_vars

(***************************************************************************)
(* parseDeinflectionData(buffer), one line of the file per step.           *)
(***************************************************************************)
(* parseInt on a field: the digits the field starts with, white space      *)
(* before them skipped; NaN when there is none.                            *)
RECURSIVE DigitPrefix(_)
DigitPrefix(str) ==
    IF str # <<>> /\ IsDigit(Head(str)) THEN <<Head(str)>> \o DigitPrefix(Tail(str))
    ELSE <<>>
RECURSIVE TrimStart(_)
TrimStart(str) ==
    IF str # <<>> /\ IsSpace(Head(str)) THEN TrimStart(Tail(str)) ELSE str
parseInt(str) ==
    IF DigitPrefix(TrimStart(str)) = <<>> THEN NaN
    ELSE DecimalValue(DigitPrefix(TrimStart(str)))

(* const [fromOrRule, to, typeMask, reasonIndex] = line.split("\t"): a
   field the line does not have is undefined, falsy like the empty one. *)
FField(fileLine, k) ==
    IF k <= Len(Split(fileLine, ChTab)) THEN Split(fileLine, ChTab)[k] ELSE <<>>
(* if (fromOrRule && to && typeMask && reasonIndex) *)
IsRuleLine(fileLine) == \A k \in 1..4 : FField(fileLine, k) # <<>>
RuleOfLine(fileLine) ==
    [from |-> FField(fileLine, 1), to |-> FField(fileLine, 2),
     typeMask |-> parseInt(FField(fileLine, 3)),
     reasonIndex |-> parseInt(FField(fileLine, 4))]

(* Mutant of PushRule: the rule joins the group of its length when there
   is one. *)
PushRuleByLength(groups, cur, rule) ==
    IF \E g \in 1..Len(groups) : groups[g].fromLength = Len(rule.from)
    THEN LET g == CHOOSE x \in 1..Len(groups) : groups[x].fromLength = Len(rule.from)
         IN  [groups EXCEPT ![g].rules = Append(@, rule)]
    ELSE Append(groups, [fromLength |-> Len(rule.from), rules |-> <<rule>>])

(* if (currentLength !== difRule.from.length) { new group; difRules.push(group) }
   group.rules.push(difRule) *)
PushRule(groups, cur, rule) ==
    IF cur # Len(rule.from)
    THEN Append(groups, [fromLength |-> Len(rule.from), rules |-> <<rule>>])
    ELSE [groups EXCEPT ![Len(groups)].rules = Append(@, rule)]

(* The lines of the files of the model. *)
MaxFileLines == 3
FormatRule(rule) ==
    rule.from \o <<ChTab>> \o rule.to \o <<ChTab>> \o Decimal(rule.typeMask)
        \o <<ChTab>> \o Decimal(rule.reasonIndex)
FileLinePool ==
    { FormatRule(RulePool[1]), FormatRule(RulePool[5]), FormatRule(RulePool[7]),
      <<ChLatA>>, <<>>, <<HiraI, ChTab, HiraU>> }
FileHeader == <<ChLatX>>
FileBuffers ==
    {<<>>} \cup {<<FileHeader>> \o body : body \in StrOver(FileLinePool, 0, MaxFileLines)}

FLine == fBuffer[fNext]
FAtLine == mode = "file" /\ fpc = "lines" /\ fNext <= Len(fBuffer)
FFrame == UNCHANGED <<mode, dVars, pVars, eVars, sVars, cVars, aVars, kVars, mVars, tVars, rVars, fBuffer>>

(* lines.next(): skip header *)
FileSkipHeader ==
    /\ mode = "file" /\ fpc = "header"
    /\ fNext' = 2
    /\ fpc' = "lines"
    /\ FFrame
    /\ UNCHANGED <<currentLength, difReasons, difRules>>

(* a line with its four fields: a rule *)
FileRuleLine ==
    /\ FAtLine
    /\ IsRuleLine(FLine)
    /\ difRules' = PushRule(difRules, currentLength, RuleOfLine(FLine))
    /\ currentLength' = Len(RuleOfLine(FLine).from)
    /\ fNext' = fNext + 1
    /\ FFrame
    /\ UNCHANGED <<difReasons, fpc>>

(* else if (fromOrRule) difReasons.push(fromOrRule) *)
FileReasonLine ==
    /\ FAtLine
    /\ ~IsRuleLine(FLine) /\ FField(FLine, 1) # <<>>
    /\ difReasons' = Append(difReasons, FField(FLine, 1))
    /\ fNext' = fNext + 1
    /\ FFrame
    /\ UNCHANGED <<currentLength, difRules, fpc>>

(* a line that starts with no text is passed over *)
FileOtherLine ==
    /\ FAtLine
    /\ FField(FLine, 1) = <<>>
    /\ fNext' = fNext + 1
    /\ FFrame
    /\ UNCHANGED <<currentLength, difReasons, difRules, fpc>>

(* return { difReasons, difRules } *)
FileReturn ==
    /\ mode = "file" /\ fpc = "lines" /\ fNext > Len(fBuffer)
    /\ fpc' = "returned"
    /\ FFrame
    /\ UNCHANGED <<fNext, currentLength, difReasons, difRules>>

InitFile ==
    /\ mode = "file"
    /\ fBuffer \in FileBuffers
    /\ fNext = 1
    /\ currentLength = 0 - 1
    /\ difReasons = <<>> /\ difRules = <<>>
    /\ fpc = "header"
    /\ DIdle /\ PIdle /\ EIdle /\ SIdle /\ CIdle /\ AIdle /\ KIdle /\ MIdle /\ TIdle /\ RIdle

NextFile ==
    FileSkipHeader \/ FileRuleLine \/ FileReasonLine \/ FileOtherLine \/ FileReturn

SpecFile == InitFile /\ [][NextFile]_vars

(***************************************************************************)
(* getMoras(pronunciation), one character per step.                        *)
(***************************************************************************)
HiraSmallYa == 12419
HiraSmallYu == 12421
HiraSmallYo == 12423
HiraSmallU == 12357
HiraSmallI == 12355
KataSmallYa == 12515
KataSmallYu == 12517
KataSmallYo == 12519
KataSmallA == 12449
KataSmallI == 12451
KataSmallU == 12453
KataSmallE == 12455
KataSmallO == 12457
(* const smallKana = [...] *)
smallKana ==
    {HiraSmallYa, HiraSmallYu, HiraSmallYo, HiraSmallU, HiraSmallI,
     KataSmallYa, KataSmallYu, KataSmallYo,
     KataSmallA, KataSmallI, KataSmallU, KataSmallE, KataSmallO}

(* The readings of the model: the small hiragana a, e and o come just
   before their full-size letters. *)
MaxMoraLen == 3
HiraSmallA == HiraA - 1
MoraChars == {HiraKa, HiraSmallYa, HiraSmallA, KataSmallA}
MoraReadings == StrOver(MoraChars, 0, MaxMoraLen)

MChar == mReading[mNext]
MAtChar == mode = "moras" /\ mpc = "loop" /\ mNext <= Len(mReading)
MFrame ==
    UNCHANGED <<mode, dVars, pVars, eVars, sVars, cVars, aVars, kVars, fVars, tVars, rVars, mReading>>

(* if (!currentMora || smallKana.includes(char)) currentMora += char *)
MoraExtend ==
    /\ MAtChar
    /\ currentMora = <<>> \/ MChar \in smallKana
    /\ currentMora' = Append(currentMora, MChar)
    /\ mNext' = mNext + 1
    /\ MFrame
    /\ UNCHANGED <<moras, mpc>>

(* else { moras.push(currentMora); currentMora = char } *)
MoraPush ==
    /\ MAtChar
    /\ ~(currentMora = <<>> \/ MChar \in smallKana)
    /\ moras' = Append(moras, currentMora)
    /\ currentMora' = <<MChar>>
    /\ mNext' = mNext + 1
    /\ MFrame
    /\ UNCHANGED mpc

(* if (currentMora) moras.push(currentMora); return moras *)
MoraReturn ==
    /\ mode = "moras" /\ mpc = "loop" /\ mNext > Len(mReading)
    /\ moras' = IF currentMora # <<>> THEN Append(moras, currentMora) ELSE moras
    /\ mpc' = "returned"
    /\ MFrame
    /\ UNCHANGED <<mNext, currentMora>>

InitMoras ==
    /\ mode = "moras"
    /\ mReading \in MoraReadings
    /\ mNext = 1
    /\ moras = <<>> /\ currentMora = <<>>
    /\ mpc = "loop"
    /\ DIdle /\ PIdle /\ EIdle /\ SIdle /\ CIdle /\ AIdle /\ KIdle /\ FIdle /\ TIdle /\ RIdle

NextMoras == MoraExtend \/ MoraPush \/ MoraReturn

SpecMoras == InitMoras /\ [][NextMoras]_vars

(***************************************************************************)
(* DictionaryResults: the selection of the results list.  An entry is      *)
(* stood for by its headword.                                              *)
(***************************************************************************)
MaxListLen == 3
ResultLists == StrOver({<<HiraA>>, <<HiraI>>, <<HiraKa>>}, 0, MaxListLen)
NavDirections == {0 - 1, 1}

(* setActiveIndex((prev) => ...): one step up or down, kept within the list *)
NextIndex(prev, dir, length) ==
    LET next == prev + (IF dir < 0 THEN 0 - 1 ELSE 1)
    IN  IF next < 0 THEN 0
        ELSE IF next >= length THEN length - 1
        ELSE next

(* useEffect(() => { setActiveIndex(0) }, [list.length]) *)
ResetOnChange(index, oldList, newList) ==
    IF Len(newList) # Len(oldList) THEN 0 ELSE index

(* list[Math.max(0, Math.min(activeIndex, list.length - 1))] *)
HighlightedIndex == Max(0, Min(activeIndex, Len(list) - 1))

RFrame == UNCHANGED <<mode, dVars, pVars, eVars, sVars, cVars, aVars, kVars, fVars, mVars, tVars>>

(* the event yomi:navigateResults with a direction *)
Navigate ==
    \E dir \in NavDirections :
        /\ mode = "results"
        /\ activeIndex' = NextIndex(activeIndex, dir, Len(list))
        /\ lastEvent' = "navigate"
        /\ RFrame
        /\ UNCHANGED list

(* the parent renders the component with other entries; the effects whose
   dependencies changed run *)
ReplaceList ==
    \E newList \in ResultLists :
        /\ mode = "results"
        /\ newList # list
        /\ list' = newList
        /\ activeIndex' = ResetOnChange(activeIndex, list, newList)
        /\ lastEvent' = "replace"
        /\ RFrame

InitResults ==
    /\ mode = "results"
    /\ list = <<>>
    /\ activeIndex = 0
    /\ lastEvent = "mount"
    /\ DIdle /\ PIdle /\ EIdle /\ SIdle /\ CIdle /\ AIdle /\ KIdle /\ FIdle /\ MIdle /\ TIdle

NextResults == Navigate \/ ReplaceList

SpecResults == InitResults /\ [][NextResults]_vars

(***************************************************************************)
(* Properties of deinflect.                                                *)
(***************************************************************************)
DReturned == mode = "deinflect" /\ DDone(DState)
DOutWords == {results[k].word : k \in 1..Len(results)}
DRules == UNION {{dGroups[g].rules[r] : r \in 1..Len(dGroups[g].rules)} :
                     g \in 1..Len(dGroups)}
EndsWith(w, suffix) ==
    Len(suffix) <= Len(w) /\ SliceFrom(w, Len(w) - Len(suffix)) = suffix
Rewrite(w, rule) == Slice(w, 0, Len(w) - Len(rule.from)) \o rule.to
(* The rule fires on a word that carries the type bits `bits`. *)
Applies(rule, w, bits) ==
    /\ EndsWith(w, rule.from)
    /\ Rewrite(w, rule) # <<>>
    /\ BitAnd(bits, rule.typeMask % TypeShift) # 0

(* C3: the first entry of the worklist deinflect returns (and of the
   worklist at every step) is the input word with an empty reason chain. *)
C3_IdentityFirst ==
    mode = "deinflect" =>
        /\ Len(results) >= 1
        /\ results[1].word = dWord
        /\ results[1].reason = <<>>

(* C3 witness: a returned worklist of three entries or more in which a rule
   rewrote a derived word back to the input word. *)
C3_Witness ==
    /\ DReturned
    /\ Len(results) >= 3
    /\ \E k \in 2..Len(results) : \E rule \in DRules :
          /\ Applies(rule, results[k].word, typeAtVisit[k])
          /\ Rewrite(results[k].word, rule) = dWord

(* The bitwise or of a finite set of type bytes. *)
RECURSIVE OrAll(_)
OrAll(S) ==
    IF S = {} THEN 0
    ELSE LET x == CHOOSE y \in S : TRUE IN BitOr(x, OrAll(S \ {x}))

(* Reachability as C4 words it: T maps every word reached so far to its type
   bits, all types for the input word and, for a derived word, the union of
   the result types of every rule application that produces it. *)
ReachProduced(T) ==
    {<<Rewrite(v, rule), rule.typeMask \div TypeShift>> :
        <<v, rule>> \in {p \in (DOMAIN T) \X DRules : Applies(p[2], p[1], T[p[1]])}}
RECURSIVE ReachFix(_)
ReachFix(T) ==
    LET prod == ReachProduced(T)
        T2 == [w \in DOMAIN T \cup {p[1] : p \in prod} |->
                  IF w = dWord THEN AllTypes
                  ELSE OrAll({p[2] : p \in {q \in prod : q[1] = w}})]
    IN  IF T2 = T THEN T ELSE ReachFix(T2)
Reachable == DOMAIN ReachFix([w \in {dWord} |-> AllTypes])

LacksReason(rule) == ReasonAt(dReasons, rule.reasonIndex) = <<>>

(* C4 as stated: the returned worklist holds every word reachable by a chain
   of rule applications, the type bits of a derived word being the union of
   the result types of all the applications that produce it.  Stated here
   for the reason tables that hold the reason of every rule, on which the
   traversal never leaves a rule group early. *)
C4_AllReachable ==
    (DReturned /\ \A rule \in DRules : ~LacksReason(rule))
        => Reachable \subseteq DOutWords

(* Some rule application of the traversal that yields nw has no reason. *)
YieldedWithoutReason(nw) ==
    \E k \in 1..Len(results) : \E rule \in DRules :
        /\ Applies(rule, results[k].word, typeAtVisit[k])
        /\ LacksReason(rule)
        /\ Rewrite(results[k].word, rule) = nw

(* C4 amended: the returned worklist holds the input word and is closed
   under the rules that apply to an entry with the type bits the entry held
   when the traversal visited it (bits merged in later unlock no rule),
   except where the reason table lacks the reason of the rule, of an earlier
   applicable rule of the same group, or of an application that yields the
   same word. *)
C4_ClosedAtVisit ==
    DReturned =>
        /\ dWord \in DOutWords
        /\ Len(typeAtVisit) = Len(results)
        /\ \A k \in 1..Len(results) : \A g \in 1..Len(dGroups) :
           \A r \in 1..Len(dGroups[g].rules) :
              LET rule == dGroups[g].rules[r]
                  w == results[k].word
              IN  ( /\ Applies(rule, w, typeAtVisit[k])
                    /\ ~LacksReason(rule)
                    /\ \A r0 \in 1..(r - 1) :
                          ~( /\ Applies(dGroups[g].rules[r0], w, typeAtVisit[k])
                             /\ LacksReason(dGroups[g].rules[r0]) )
                    /\ ~YieldedWithoutReason(Rewrite(w, rule)) )
                  => Rewrite(w, rule) \in DOutWords

(* C4 witness: a returned worklist in which a word that is reachable through
   type bits merged in after its entry was visited is missing, although every
   rule has its reason. *)
C4_Witness ==
    /\ DReturned
    /\ \A rule \in DRules : ~LacksReason(rule)
    /\ \E k \in 2..Len(results) :
          /\ results[k].type # typeAtVisit[k]
          /\ \E rule \in DRules :
                /\ Applies(rule, results[k].word, results[k].type)
                /\ ~Applies(rule, results[k].word, typeAtVisit[k])
                /\ Rewrite(results[k].word, rule) \notin DOutWords

(* C5 as stated: for every rule with a non-zero source-type byte whose `from`
   ends the input word, the rewritten word being non-empty and different
   from the input word, the returned worklist holds the rewritten word with
   a non-empty reason chain.  Stated here for the rules whose own reason
   string the reason table holds. *)
C5_EveryRuleYields ==
    DReturned =>
        \A rule \in DRules :
            ( /\ rule.typeMask % TypeShift # 0
              /\ ~LacksReason(rule)
              /\ EndsWith(dWord, rule.from)
              /\ Rewrite(dWord, rule) # <<>>
              /\ Rewrite(dWord, rule) # dWord )
            => \E k \in 1..Len(results) :
                  /\ results[k].word = Rewrite(dWord, rule)
                  /\ results[k].reason # <<>>

(***************************************************************************)
(* Properties of getPitchAccents.                                          *)
(***************************************************************************)
PReturned == mode = "pitch" /\ ppc = "done"

(* Every line is well-formed; the file may end with a newline, which leaves
   an empty last line.  The order of the lines is that of PitchPool. *)
PWellFormedTable ==
    \A i \in 1..Len(pitchData) :
        \/ pitchData[i] # <<>> /\ ~PInvalid(pitchData[i])
        \/ i = Len(pitchData) /\ pitchData[i] = <<>>
PDataLines == {i \in 1..Len(pitchData) : pitchData[i] # <<>>}

IsHiragana(s) ==
    \A i \in 1..Len(s) : s[i] >= KataFirst - KataShift /\ s[i] <= KataLast - KataShift

(* The lines of the table for a headword and a hiragana reading. *)
PHits(word, reading) ==
    {i \in PDataLines :
        /\ PWordOf(pitchData[i]) = word
        /\ katakanaToHiragana(PReadingOf(pitchData[i])) = reading}

(* C6: on a sorted table of well-formed lines, a query with a (non-empty)
   hiragana reading returns the accents of the line with that headword and
   that reading once normalised, and the empty list when there is no such
   line. *)
C6_HiraganaLookup ==
    (PReturned /\ PWellFormedTable /\ pReading # <<>> /\ IsHiragana(pReading)) =>
        IF PHits(pWord, pReading) = {} THEN pRet = <<>>
        ELSE \A i \in PHits(pWord, pReading) : pRet = PAccentsOf(pitchData[i])

(* C6 witness: a hit on a table with three lines or more for the headword,
   found on a line other than the first one probed. *)
C6_Witness ==
    /\ PReturned /\ PWellFormedTable /\ pReading # <<>> /\ IsHiragana(pReading)
    /\ Cardinality({i \in PDataLines : PWordOf(pitchData[i]) = pWord}) >= 3
    /\ PHits(pWord, pReading) # {}
    /\ pRet # <<>>
    /\ PMid(PInit(pitchData)) + 1 \notin PHits(pWord, pReading)

(* C7 as stated: on a sorted table of well-formed lines, a query with a
   line's headword and its reading in katakana exactly as stored returns
   that line's accents. *)
C7_KatakanaLookup ==
    (PReturned /\ PWellFormedTable) =>
        \A i \in PDataLines :
            (pWord = PWordOf(pitchData[i]) /\ pReading = PReadingOf(pitchData[i]))
                => pRet = PAccentsOf(pitchData[i])

(* A line that is not `word TAB reading TAB accent,accent,...` with a word,
   a reading and accents written as decimal numbers. *)
PNumeral(str) == str # <<>> /\ \A i \in 1..Len(str) : IsDigit(str[i])
PMalformed(pitchLine) ==
    \/ pitchLine = <<>>
    \/ PWordOf(pitchLine) = <<>>
    \/ PReadingOf(pitchLine) = <<>>
    \/ ~PHasAccents(pitchLine)
    \/ \E k \in 1..Len(Split(PFields(pitchLine)[3], ChComma)) :
            ~PNumeral(Split(PFields(pitchLine)[3], ChComma)[k])
(* The call returned from inside the loop, on the line at mid. *)
PReturnedOnLine == PReturned /\ plo <= phi
PLastLine == pitchData[PMid(PState) + 1]

(* C11 as stated: when the binary search of getPitchAccents visits an empty
   line, a line lacking the word, the reading or the accent field, or a line
   with a non-numeric accent, the call returns the empty list. *)
C11_MalformedPitchLine ==
    (PReturnedOnLine /\ PMalformed(PLastLine)) => pRet = <<>>

(***************************************************************************)
(* Properties of parseWordDictLine.                                        *)
(***************************************************************************)
EReturned == mode = "parse" /\ epc = "done"
ERoundTrip ==
    /\ Len(parsed) = 1
    /\ parsed[1].word = entry.word
    /\ parsed[1].pronunciation = entry.reading
    /\ parsed[1].definitions = entry.glosses
NoSlash(str) == \A i \in 1..Len(str) : str[i] # ChSlash

(* C8 as stated: for an entry with a non-empty headword, an optional reading
   and a non-empty list of glosses without '/', parsing the line built from
   the entry gives back its headword, reading and glosses. *)
C8_RoundTrip ==
    ( /\ EReturned
      /\ entry.word # <<>>
      /\ entry.glosses # <<>>
      /\ \A i \in 1..Len(entry.glosses) : NoSlash(entry.glosses[i]) )
    => ERoundTrip

(* C8 amended: the same, for a headword without white space, a reading
   without ']' and a gloss list other than the single empty gloss. *)
C8_RoundTripKana ==
    ( /\ EReturned
      /\ entry.word # <<>>
      /\ \A i \in 1..Len(entry.word) : ~IsSpace(entry.word[i])
      /\ \A i \in 1..Len(entry.reading) : entry.reading[i] # ChRBr
      /\ entry.glosses # <<>>
      /\ entry.glosses # << <<>> >>
      /\ \A i \in 1..Len(entry.glosses) : NoSlash(entry.glosses[i]) )
    => ERoundTrip

(* C8 witness: an entry with a reading and several glosses, one of them
   empty, parsed back from its line. *)
C8_Witness ==
    /\ EReturned
    /\ ERoundTrip
    /\ entry.reading # <<>>
    /\ Len(entry.glosses) = 3
    /\ Len(entry.word) = MaxHeadLen

(***************************************************************************)
(* Properties of searchWord.                                               *)
(***************************************************************************)
SReturned == mode = "search" /\ spc = "returned"

(* The candidates of the prefix of the query of length n. *)
SCandidates(n) ==
    deinflect(dictionaries.difReasons, dictionaries.difRules,
              Normalize(Slice(query, 0, n)))
(* The prefix lengths at which the search of some candidate hits a key. *)
HitLengths ==
    {n \in 1..Len(query) :
        \E c \in 1..Len(SCandidates(n)) :
            SProbe(dictionaries.wordDictIndex, SCandidates(n)[c].word).outcome = "hit"}

(* The lines of an index text: the pieces between newlines, the text after
   the last newline counting as a line when it is not empty. *)
IndexLinesOf(indexText) ==
    LET parts == Split(indexText, ChNL)
    IN  IF parts[Len(parts)] = <<>> THEN SubSeq(parts, 1, Len(parts) - 1) ELSE parts
KeyOf(indexLine) == Split(indexLine, ChComma)[1]
OffsetsOf(indexLine) == Tail(Split(indexLine, ChComma))
WellFormedLine(indexLine) ==
    /\ KeyOf(indexLine) # <<>>
    /\ OffsetsOf(indexLine) # <<>>
    /\ \A k \in 1..Len(OffsetsOf(indexLine)) :
            /\ OffsetsOf(indexLine)[k] # <<>>
            /\ \A i \in 1..Len(OffsetsOf(indexLine)[k]) : IsDigit(OffsetsOf(indexLine)[k][i])
WellFormedIndex(indexText) ==
    LET lines == IndexLinesOf(indexText)
    IN  /\ \A i \in 1..Len(lines) : WellFormedLine(lines[i])
        /\ \A i, j \in 1..Len(lines) : i < j => StrLess(KeyOf(lines[i]), KeyOf(lines[j]))
(* The offsets of the line with the given key, read as decimal numbers. *)
KeyLines(indexText, key) ==
    {i \in 1..Len(IndexLinesOf(indexText)) : KeyOf(IndexLinesOf(indexText)[i]) = key}
Lookup(indexText, key) ==
    IF KeyLines(indexText, key) = {} THEN <<>>
    ELSE LET i == CHOOSE k \in KeyLines(indexText, key) : TRUE
             strs == OffsetsOf(IndexLinesOf(indexText)[i])
         IN  [k \in 1..Len(strs) |-> DecimalValue(strs[k])]

(* The prefix lengths at which some candidate is the key of an index line. *)
KeyLengths ==
    {n \in 1..Len(query) :
        \E c \in 1..Len(SCandidates(n)) :
            KeyLines(dictionaries.wordDictIndex, Normalize(SCandidates(n)[c].word)) # {}}

(* C1: searchWord returns as selectedTextLength the greatest prefix length
   at which some deinflection candidate of the normalised prefix hits a key
   of the index, and 1 when no prefix of any length produces a hit.  On an
   index of well-formed sorted lines the hits are the candidates whose
   normalised form is the key of a line. *)
C1_LongestHit ==
    SReturned =>
        /\ selectedTextLength =
                IF HitLengths = {} THEN 1
                ELSE CHOOSE n \in HitLengths : \A k \in HitLengths : n >= k
        /\ WellFormedIndex(dictionaries.wordDictIndex) => HitLengths = KeyLengths

(* C1 witness: a query of three characters whose longest hit is at length 2,
   with a further hit at length 1. *)
C1_Witness ==
    /\ SReturned
    /\ Len(query) = MaxTextLen
    /\ HitLengths = {1, 2}
    /\ selectedTextLength = 2

(* C2: on an index text of well-formed lines sorted ascending by distinct
   keys, every binary search yields exactly the offsets of the line whose key
   equals the normalised probe word, and nothing when no line has that key. *)
C2_BinarySearch ==
    (mode = "search" /\ WellFormedIndex(dictionaries.wordDictIndex)) =>
        \A i \in 1..Len(probes) :
            /\ (probes[i].outcome = "hit") <=>
                    (KeyLines(dictionaries.wordDictIndex, Normalize(probes[i].word)) # {})
            /\ probes[i].offsets =
                    Lookup(dictionaries.wordDictIndex, Normalize(probes[i].word))

(* The order of two entries: by prefix length, longer first, then by the
   position of the candidate, then by the position of the offset. *)
TagBefore(a, b) ==
    \/ a.length > b.length
    \/ a.length = b.length /\ a.candidate < b.candidate
    \/ a.length = b.length /\ a.candidate = b.candidate /\ a.position < b.position

(* C9: in the returned wordEntries, the entries of a longer prefix precede
   those of a shorter one; within a prefix the entries follow the order of
   the candidates of the worklist, and within a candidate the order of the
   offsets on the matched index line. *)
C9_EntryOrder ==
    SReturned =>
        /\ Len(entryTags) = Len(wordEntries)
        /\ \A i \in 1..Len(wordEntries) :
                << wordEntries[i] >> =
                    EntryAt(dictionaries.wordDict, dictionaries.pitchData,
                            entryTags[i].offset)
        /\ \A i, j \in 1..Len(entryTags) :
                i < j => TagBefore(entryTags[i], entryTags[j])

(* C9 witness: a returned list with entries of two prefixes, of two
   candidates of one prefix, and of two offsets of one index line. *)
C9_Witness ==
    /\ SReturned
    /\ Len(entryTags) = Len(wordEntries)
    /\ \E i, j \in 1..Len(entryTags) :
            i < j /\ entryTags[i].length > entryTags[j].length
                  /\ wordEntries[i] # wordEntries[j]
    /\ \E i, j \in 1..Len(entryTags) :
            /\ i < j /\ entryTags[i].length = entryTags[j].length
            /\ entryTags[i].candidate < entryTags[j].candidate
            /\ wordEntries[i] # wordEntries[j]
    /\ \E i, j \in 1..Len(entryTags) :
            /\ i < j /\ entryTags[i].length = entryTags[j].length
            /\ entryTags[i].candidate = entryTags[j].candidate
            /\ wordEntries[i] # wordEntries[j]

(* The entries of the probes from position i on, each probe's entries being
   those of the offsets its search yields. *)
RECURSIVE EntriesOfProbes(_)
EntriesOfProbes(i) ==
    IF i > Len(probes) THEN <<>>
    ELSE newEntries(dictionaries.wordDict, dictionaries.pitchData,
                    SProbe(dictionaries.wordDictIndex, probes[i].word).offsets)
            \o EntriesOfProbes(i + 1)
SMalformed(probe) == probe.outcome \in {"noKey", "nanOffset"}

(* C10: when the search for a candidate visits an index line with a missing
   key or a non-numeric offset, that probe contributes no entries, every
   candidate of every prefix is still probed, and the returned entries are
   those the probes find. *)
C10_MalformedLine ==
    (SReturned /\ \E i \in 1..Len(probes) : SMalformed(probes[i])) =>
        /\ \A i \in 1..Len(probes) : SMalformed(probes[i]) => probes[i].offsets = <<>>
        /\ \A n \in 1..Len(query) :
                \A c \in 1..Len(SCandidates(n)) :
                    \E i \in 1..Len(probes) : probes[i].word = SCandidates(n)[c].word
        /\ wordEntries = EntriesOfProbes(1)

(* C10 witness: a call in which one probe ends on a malformed line and a
   later probe of a shorter prefix finds entries. *)
C10_Witness ==
    /\ SReturned
    /\ \E i, j \in 1..Len(probes) :
            /\ i < j
            /\ SMalformed(probes[i])
            /\ probes[j].outcome = "hit"
            /\ probes[j].length < probes[i].length
    /\ wordEntries # <<>>

(* C12 as stated: whatever the index text, a searchWord call runs to
   completion. *)
C12_SearchTerminates == <>SReturned

C14_CallsIndependent ==
    mode = "calls" =>
        /\ shared = loaded
        /\ \A c \in CallIds :
              CallDone(calls[c]) => CallResult(calls[c]) = CallAlone(loaded, calls[c])

(* Two searchWord calls have probed the same word; the first has returned
   with entries while the second is in the middle of a probe. *)
C14_Witness ==
    /\ mode = "calls"
    /\ calls[1].op = "searchWord" /\ calls[2].op = "searchWord"
    /\ CallDone(calls[1]) /\ ~CallDone(calls[2])
    /\ calls[2].st.pc = "probe"
    /\ calls[1].st.wordEntries # <<>>
    /\ calls[1].st.searchedWords \cap calls[2].st.searchedWords # {}

Complete(dicts) ==
    \A bundle \in dicts : \A a \in Assets : bundle[a] # "none"
AllFinished == \A a \in Assets : retrieval[a].pc = "resolved"

(***************************************************************************)
(* C15.  The bundle is there only once the retrievals of all four assets   *)
(* have finished, in whatever order they finish, and it holds the data of  *)
(* all four; every searchWord call is given such a bundle; and the loading *)
(* notice is on the screen exactly when the rendered bundle is null.       *)
(***************************************************************************)
C15_BundleAfterAllLoads ==
    mode = "app" =>
        /\ appDictionaries # {} => AllFinished /\ Complete(appDictionaries)
        /\ view.dictionaries # {} => AllFinished /\ Complete(view.dictionaries)
        /\ \A k \in 1..Len(searchCalls) :
              /\ searchCalls[k].dictionaries # {}
              /\ Complete(searchCalls[k].dictionaries)
              /\ AllFinished
        /\ debounceTimer # {} => view.dictionaries # {}
        /\ view.notice <=> view.dictionaries = {}

(* The pitch data finished first and the dictionary text last, the bundle
   was set and rendered, the notice is gone and a search has run. *)
C15_Witness ==
    /\ mode = "app"
    /\ Len(finished) = 4
    /\ finished[1] = PitchAsset /\ finished[4] = WordDictAsset
    /\ view.dictionaries # {} /\ ~view.notice
    /\ searchCalls # <<>>

RetrievalFailed(asset) ==
    retrieval[asset].pc = "rejected" \/ Len(attempts[asset]) > 1

(***************************************************************************)
(* C16.  When a retrieval of an asset fails, its load operation rejects,   *)
(* no second retrieval of the asset has been started, and no bundle is     *)
(* set.                                                                    *)
(***************************************************************************)
C16_FailureReported ==
    mode = "app" =>
        \A op \in LoadOps : \A a \in AssetsOf(op) :
            RetrievalFailed(a) =>
                /\ Len(attempts[a]) = 1
                /\ LoadSettled(op) = "rejected"
                /\ appDictionaries = {}

HasKatakana(str) == \E i \in 1..Len(str) : str[i] >= KataFirst /\ str[i] <= KataLast

(***************************************************************************)
(* C17.  katakanaToHiragana applied twice gives what it gives applied      *)
(* once, and a string without a character of the shifted katakana range    *)
(* comes back unchanged.                                                   *)
(***************************************************************************)
C17_KanaIdempotent ==
    /\ (mode = "kana" /\ kpc = "twice") => kTwice = kOnce
    /\ (mode = "kana" /\ kpc # "start" /\ ~HasKatakana(kInput)) => kOnce = kInput

(* A string of katakana and other characters was converted twice, and the
   first conversion changed it. *)
C17_Witness ==
    /\ mode = "kana" /\ kpc = "twice"
    /\ HasKatakana(kInput) /\ kOnce # kInput
    /\ \E i \in 1..Len(kInput) : kInput[i] = HiraKa

InWorklist(w) == \E k \in 1..Len(results) : results[k].word = w

(***************************************************************************)
(* C18.  A rule application that yields a word already in the worklist     *)
(* appends nothing, ORs typeMask >> 8 into the type of the entry of that   *)
(* word, leaves every word, every reason chain, every other type and the   *)
(* order as they are, and the traversal does not go back to an entry it    *)
(* has processed.                                                          *)
(***************************************************************************)
C18_MergeKeepsWorklist ==
    [][ /\ ri' >= ri
        /\ (DIs("merge") /\ InWorklist(DNewWord(dGroups, DState))) =>
              LET nw == DNewWord(dGroups, DState)
                  bits == DRule(dGroups, DState).typeMask \div TypeShift
              IN  /\ Len(results') = Len(results)
                  /\ \A k \in 1..Len(results) :
                        /\ results'[k].word = results[k].word
                        /\ results'[k].reason = results[k].reason
                        /\ results'[k].type =
                              IF results[k].word = nw
                              THEN BitOr(results[k].type, bits)
                              ELSE results[k].type
                  /\ ri' = ri /\ curType' = curType ]_vars

(* An entry that the traversal has left behind holds type bits it did not
   have when it was visited, every rule having its reason string. *)
C18_Witness ==
    /\ mode = "deinflect"
    /\ \A rule \in DRules : ~LacksReason(rule)
    /\ \E k \in 2..Len(results) :
          /\ k <= ri
          /\ results[k].type # typeAtVisit[k]

ProbedWords == {probes[k].word : k \in 1..Len(probes)}

(***************************************************************************)
(* C19.  Within a searchWord call no word is probed against the index      *)
(* twice, and searchedWords holds exactly the words probed in this call:   *)
(* it starts empty and gains a word when the probe of the word starts.     *)
(***************************************************************************)
C19_ProbedOnce ==
    mode = "search" =>
        /\ \A i, j \in 1..Len(probes) : i # j => probes[i].word # probes[j].word
        /\ spc = "probe" => SWord \notin ProbedWords
        /\ searchedWords = ProbedWords \cup (IF spc = "probe" THEN {SWord} ELSE {})

(* The candidate before the current one was probed at a longer prefix and
   has been passed over at this prefix. *)
C19_Witness ==
    /\ mode = "search" /\ spc = "candidate" /\ ci > 1
    /\ \E k \in 1..Len(probes) :
          /\ probes[k].word = deinflections[ci - 1].word
          /\ probes[k].length > Len(text)
    /\ ~\E k \in 1..Len(probes) :
          probes[k].length = Len(text) /\ probes[k].candidate = ci - 1

(***************************************************************************)
(* C20.  The names of a reason chain, against the order in which the rules *)
(* were applied on the way from the input word to the entry.               *)
(***************************************************************************)
(* The names of a chain: the pieces between the separators " &lt; ". *)
RECURSIVE ChainNames(_)
ChainNames(chain) ==
    LET n == Len(ReasonSep)
        cuts == {p \in 1..(Len(chain) - n + 1) : SubSeq(chain, p, p + n - 1) = ReasonSep}
    IN  IF chain = <<>> THEN <<>>
        ELSE IF cuts = {} THEN <<chain>>
        ELSE LET p == CHOOSE c \in cuts : \A d \in cuts : c <= d
             IN  <<SubSeq(chain, 1, p - 1)>> \o
                 ChainNames(SubSeq(chain, p + n, Len(chain)))

Reverse(seq) == [k \in 1..Len(seq) |-> seq[Len(seq) + 1 - k]]

(* C20 as stated: in the chain of an entry derived through two or more rule
   applications the reason of the rule applied first is the first name and
   the reason of the rule applied last is the last name. *)
C20_OutermostFirst ==
    mode = "deinflect" =>
        \A k \in 1..Len(results) :
            Len(applied[k]) >= 2 =>
                LET names == ChainNames(results[k].reason)
                IN  /\ names # <<>>
                    /\ names[1] = applied[k][1]
                    /\ names[Len(names)] = applied[k][Len(applied[k])]

(* C20 amended: the chain of every entry lists the reasons of the rules in
   the reverse of the order of application, the reason of the rule applied
   last first and the reason of the rule applied first to the input word
   last. *)
C20_LastAppliedFirst ==
    mode = "deinflect" =>
        \A k \in 1..Len(results) :
            ChainNames(results[k].reason) = Reverse(applied[k])

(* An entry derived through two rules with different reasons. *)
C20_Witness ==
    /\ mode = "deinflect"
    /\ \E k \in 1..Len(results) :
          /\ Len(applied[k]) >= 2
          /\ applied[k][1] # applied[k][Len(applied[k])]

(* C21 as stated: no word of the worklist is longer than the input word,
   every appended entry being no longer than the entry it was derived
   from, for every rule set. *)
C21_LengthNonIncreasing ==
    mode = "deinflect" =>
        \A k \in 1..Len(results) : Len(results[k].word) <= Len(dWord)

(* C22 as stated: at every step of deinflect every key of
   wordToResultIndex is mapped to a position of the worklist that holds an
   entry whose word is the key, for every reason table. *)
C22_MapMatchesWorklist ==
    mode = "deinflect" =>
        \A w \in DOMAIN wordToResultIndex :
            /\ wordToResultIndex[w] < Len(results)
            /\ results[wordToResultIndex[w] + 1].word = w

(* The rule lines of the file, in file order. *)
FileRules ==
    LET idx == {k \in 2..Len(fBuffer) : IsRuleLine(fBuffer[k])}
        RECURSIVE From(_)
        From(k) == IF k > Len(fBuffer) THEN <<>>
                   ELSE (IF k \in idx THEN <<RuleOfLine(fBuffer[k])>> ELSE <<>>) \o From(k + 1)
    IN  From(2)
FReturned == mode = "file" /\ fpc = "returned"

(* C23 as stated: in the groups parseDeinflectionData returns every rule's
   `from` has the length of its group's fromLength, no two groups have the
   same fromLength, and each group holds, in file order, all the rules of
   the file whose `from` has that length. *)
C23_GroupedByLength ==
    FReturned =>
        /\ \A g \in 1..Len(difRules) : \A r \in 1..Len(difRules[g].rules) :
              Len(difRules[g].rules[r].from) = difRules[g].fromLength
        /\ \A g, h \in 1..Len(difRules) :
              g # h => difRules[g].fromLength # difRules[h].fromLength
        /\ \A g \in 1..Len(difRules) :
              difRules[g].rules =
                  SelectSeq(FileRules, LAMBDA rule : Len(rule.from) = difRules[g].fromLength)

(* The offsets of a dictionary text at which a line starts, and the line
   that starts there: the text up to the next newline or, on the last line,
   to the end of the text. *)
IsLineStart(wordDict, widx) ==
    /\ widx >= 0 /\ widx < Len(wordDict)
    /\ widx = 0 \/ wordDict[widx] = ChNL
WholeLine(wordDict, widx) ==
    IF IndexOf(wordDict, ChNL, widx) = 0 - 1 THEN SliceFrom(wordDict, widx)
    ELSE Slice(wordDict, widx, IndexOf(wordDict, ChNL, widx))

(* C24 as stated: for every offset of a matched index line that is the
   position of the first character of a line of the dictionary text, the
   text handed to the entry parser is that whole line, up to but not
   including the next newline, the last line of the text included. *)
C24_WholeLineParsed ==
    mode = "search" =>
        \A p \in 1..Len(probes) :
            probes[p].outcome = "hit" =>
                \A k \in 1..Len(probes[p].offsets) :
                    IsLineStart(dictionaries.wordDict, probes[p].offsets[k]) =>
                        DictLineAt(dictionaries.wordDict, probes[p].offsets[k])
                            = WholeLine(dictionaries.wordDict, probes[p].offsets[k])

RECURSIVE Flatten(_)
Flatten(strs) == IF strs = <<>> THEN <<>> ELSE Head(strs) \o Flatten(Tail(strs))
(* The positions of the reading at which a mora of the list starts. *)
MoraStarts(ms) == {Len(Flatten(SubSeq(ms, 1, k - 1))) + 1 : k \in 1..Len(ms)}
(* Small ya/yu/yo and small a/i/u/e/o, in hiragana and in katakana. *)
SmallKanaOfBothScripts ==
    {HiraSmallYa, HiraSmallYu, HiraSmallYo,
     HiraSmallA, HiraSmallI, HiraSmallU, HiraA + 5, HiraA + 7,
     KataSmallYa, KataSmallYu, KataSmallYo,
     KataSmallA, KataSmallI, KataSmallU, KataSmallE, KataSmallO}
MReturned == mode = "moras" /\ mpc = "returned"

(* C25 as stated: getMoras returns non-empty moras whose concatenation is
   the reading; every small kana (ya/yu/yo, a/i/u/e/o, hiragana and
   katakana) that has a preceding character is in the mora of that
   character, and every other character starts a new mora. *)
C25_SmallKanaJoin ==
    MReturned =>
        /\ \A k \in 1..Len(moras) : moras[k] # <<>>
        /\ Flatten(moras) = mReading
        /\ \A i \in 1..Len(mReading) :
              (i \in MoraStarts(moras))
                  <=> ~(i > 1 /\ mReading[i] \in SmallKanaOfBothScripts)

(* Two entries of the worklist, visited with the types seen at their
   visits, yield one and the same word by rules of the set. *)
YieldedTwice ==
    \E j, k \in 1..Len(typeAtVisit) : \E a, b \in DRules :
        /\ j # k
        /\ Applies(a, results[j].word, typeAtVisit[j])
        /\ Applies(b, results[k].word, typeAtVisit[k])
        /\ Rewrite(results[j].word, a) = Rewrite(results[k].word, b)

(* C26: no two entries of the list deinflect returns have the same word,
   whatever the rule set and the reason table. *)
C26_WordsDistinct ==
    DReturned =>
        \A j, k \in 1..Len(results) : j # k => results[j].word # results[k].word
(* A returned list of three or more entries in which a word was yielded
   by two entries, every rule having its reason (no group was left early). *)
C26_Witness ==
    /\ DReturned
    /\ Len(results) >= 3
    /\ \A rule \in DRules : ~LacksReason(rule)
    /\ YieldedTwice

(* C27 as stated: whenever searchWord returns an empty wordEntries list,
   the selectedTextLength it returns is 1. *)
C27_LengthOnlyWithEntries ==
    (SReturned /\ wordEntries = <<>>) => selectedTextLength = 1

(* C28: getPitchAccents called with an empty reading returns what it
   returns when called with the headword as the reading, for every pitch
   table and headword. *)
C28_EmptyReadingIsHeadword ==
    (PReturned /\ pReading = <<>>) => pRet = getPitchAccents(pitchData, pWord, pWord)
(* A call with an empty reading that returned the accents of a line. *)
C28_Witness ==
    PReturned /\ pReading = <<>> /\ pRet # <<>>

(* C30 as stated: after any sequence of navigation events followed by the
   replacement of the entry list by a different list, the highlighted index
   is 0. *)
C30_SelectionReset ==
    (mode = "results" /\ lastEvent = "replace") => HighlightedIndex = 0

(* The displayed entries are those of the searchWord call on the bundle
   for the current input value with its white space removed. *)
ShowsLatest ==
    entriesFrom = {[dictionaries |-> appDictionaries, text |-> Cleaned(inputValue)]}
(* Every searchWord call ran for a value that had been unchanged for the
   debounce delay. *)
OnlySettledValues ==
    \A k \in 1..Len(searchCalls) : searchCalls[k].unchangedFor >= DebounceMs

(* C29 as stated: once the bundle is loaded, searchWord runs only for input
   values that stayed unchanged for 150 ms, and once the input stops
   changing the displayed entries eventually are the result of searchWord
   for the latest input value with its white space removed. *)
C29_DebouncedSearch ==
    /\ [](mode = "debounce" => OnlySettledValues)
    /\ <>[](mode = "debounce" => ShowsLatest)

============================================================================
